---- MODULE Spec2Model ----
(***************************************************************************)
(* Sensor diagnostics engine of car2 (src/modulos/*.py).                   *)
(*                                                                         *)
(* Numbers.  Every numeric value of the program (a parsed cell, a mean, a  *)
(* percentage, a volume) is an integer count of thousandths: 40.0 is       *)
(* 40000, 0.01 is 10.  round(x, 2) is rounding to the nearest multiple of  *)
(* 10, ties to even, as Python's and numpy's round do.  A value the code   *)
(* keeps unrounded (a window mean, a percentage) is an exact fraction      *)
(* [n, d].  Binary floating point error is not modelled.                   *)
(*                                                                         *)
(* Optional values.  Python's None is the empty sequence, a value v that   *)
(* is present is <<v>>.                                                    *)
(*                                                                         *)
(* Cells.  A raw cell of the data frame is the text astype(str) gives, as  *)
(* a sequence of one-character strings; a missing cell is the text "nan".  *)
(***************************************************************************)
EXTENDS Integers, Sequences, FiniteSets, TLC

VARIABLES prog, pc, df, cfg, args, loc, res

vars == <<prog, pc, df, cfg, args, loc, res>>

----------------------------------------------------------------------------
(* Generic helpers                                                         *)

None == <<>>

Some(v) == <<v>>

IsNone(o) == o = <<>>

Val(o) == o[1]

Range(s) == {s[i] : i \in 1..Len(s)}

MinOf(a, b) == IF a <= b THEN a ELSE b

MaxOf(a, b) == IF a >= b THEN a ELSE b

Abs(x) == IF x < 0 THEN -x ELSE x

RECURSIVE SeqSum(_)
SeqSum(s) == IF s = <<>> THEN 0 ELSE s[1] + SeqSum(Tail(s))

SeqMax(s) == CHOOSE x \in Range(s) : \A y \in Range(s) : y <= x

SeqMin(s) == CHOOSE x \in Range(s) : \A y \in Range(s) : x <= y

(* The values in ascending order. *)
RECURSIVE Insert(_, _)
Insert(x, s) ==
    IF s = <<>> THEN <<x>>
    ELSE IF x <= s[1] THEN <<x>> \o s
    ELSE <<s[1]>> \o Insert(x, Tail(s))

RECURSIVE Sorted(_)
Sorted(s) == IF s = <<>> THEN <<>> ELSE Insert(s[1], Sorted(Tail(s)))

(* The largest integer whose square is at most m (m >= 0). *)
RECURSIVE IsqrtFrom(_, _)
IsqrtFrom(m, x) ==
    LET y == (x + m \div x) \div 2
    IN  IF y >= x THEN x ELSE IsqrtFrom(m, y)

Isqrt(m) == IF m = 0 THEN 0 ELSE IsqrtFrom(m, m)

(* The float 0/0 that pandas and numpy return for an undefined statistic,  *)
(* in the place of a present value.                                        *)
NaN == <<0, 0>>

RECURSIVE Gcd(_, _)
Gcd(a, b) == IF b = 0 THEN a ELSE Gcd(b, a % b)

(* A fraction n/d, d > 0, in lowest terms. *)
Frac(n, d) ==
    LET g == Gcd(Abs(n), d)
    IN  [n |-> n \div g, d |-> d \div g]

(* n/d rounded to the nearest integer, ties to even (d > 0). *)
RoundHalfEven(n, d) ==
    LET q == n \div d
        r == n % d
    IN  IF 2 * r < d THEN q
        ELSE IF 2 * r > d THEN q + 1
        ELSE IF q % 2 = 0 THEN q ELSE q + 1

(* round(n/d, 2) of a value counted in thousandths: a multiple of 10. *)
Round2(n, d) == 10 * RoundHalfEven(n, 10 * d)

(* s.head(k) and s.tail(k) of a pandas Series. *)
HeadN(s, k) == SubSeq(s, 1, MinOf(k, Len(s)))

TailN(s, k) == SubSeq(s, MaxOf(1, Len(s) - k + 1), Len(s))

Repeat(x, k) == [i \in 1..k |-> x]

----------------------------------------------------------------------------
(* utilitarios.sanitizar_coluna                                            *)

Digits == {"0", "1", "2", "3", "4", "5", "6", "7", "8", "9"}

DigitVal(c) ==
    CASE c = "0" -> 0 [] c = "1" -> 1 [] c = "2" -> 2 [] c = "3" -> 3
      [] c = "4" -> 4 [] c = "5" -> 5 [] c = "6" -> 6 [] c = "7" -> 7
      [] c = "8" -> 8 [] c = "9" -> 9

Whitespace == {" ", "\t"}

(* str.strip(): leading and trailing whitespace removed. *)
RECURSIVE LStrip(_)
LStrip(t) == IF t # <<>> /\ t[1] \in Whitespace THEN LStrip(Tail(t)) ELSE t

RECURSIVE RStrip(_)
RStrip(t) ==
    IF t # <<>> /\ t[Len(t)] \in Whitespace
    THEN RStrip(SubSeq(t, 1, Len(t) - 1))
    ELSE t

Strip(t) == RStrip(LStrip(t))

(* str.replace(old, new, regex=False) for a one-character old; new is a    *)
(* text (possibly empty).                                                  *)
RECURSIVE ReplaceChar(_, _, _)
ReplaceChar(t, old, new) ==
    IF t = <<>> THEN <<>>
    ELSE (IF t[1] = old THEN new ELSE <<t[1]>>) \o ReplaceChar(Tail(t), old, new)

(* The texts Series.replace([...], pd.NA) turns into a missing value. *)
InvalidTexts ==
    { <<>>, <<"-">>, <<"n", "a", "n">>, <<"N", "o", "n", "e">>, <<"N", "a", "T">> }

RECURSIVE DigitsValue(_)
DigitsValue(t) ==
    IF t = <<>> THEN 0 ELSE 10 * DigitsValue(SubSeq(t, 1, Len(t) - 1)) + DigitVal(t[Len(t)])

AllDigits(t) == \A i \in 1..Len(t) : t[i] \in Digits

(* pd.to_numeric(text, errors='coerce') on the decimal texts of the model: *)
(* [sign] digits [. digits] with at most three decimals, in thousandths;   *)
(* None (NaN) for a text that is no number.                                *)
ToNumeric(t) ==
    LET signed == t # <<>> /\ t[1] \in {"-", "+"}
        sgn    == IF t # <<>> /\ t[1] = "-" THEN -1 ELSE 1
        body   == IF signed THEN Tail(t) ELSE t
        dots   == {i \in 1..Len(body) : body[i] = "."}
        dot    == IF dots = {} THEN Len(body) + 1 ELSE CHOOSE i \in dots : TRUE
        ip     == SubSeq(body, 1, dot - 1)
        fp     == SubSeq(body, dot + 1, Len(body))
        fp3    == fp \o Repeat("0", 3 - Len(fp))
    IN  IF /\ Cardinality(dots) <= 1
           /\ Len(ip) + Len(fp) >= 1
           /\ Len(fp) <= 3
           /\ AllDigits(ip)
           /\ AllDigits(fp)
        THEN Some(sgn * (1000 * DigitsValue(ip) + DigitsValue(fp3)))
        ELSE None

SanitizeCell_mut_reversed(c) ==
    LET t == ReplaceChar(ReplaceChar(Strip(c), ".", <<",">>), "%", <<>>)
    IN  IF t \in InvalidTexts THEN None ELSE ToNumeric(t)

(* One cell through lines 18-29: strip, ',' -> '.', '%' removed, the known *)
(* invalid texts to NA, to_numeric with errors='coerce'.                   *)
SanitizeCell(c) ==
    LET t == ReplaceChar(ReplaceChar(Strip(c), ",", <<".">>), "%", <<>>)
    IN  IF t \in InvalidTexts THEN None ELSE ToNumeric(t)

RECURSIVE DropNa_mut_fillna(_)
DropNa_mut_fillna(s) ==
    IF s = <<>> THEN <<>>
    ELSE (IF IsNone(s[1]) THEN <<0>> ELSE <<Val(s[1])>>) \o DropNa_mut_fillna(Tail(s))

(* dropna(): the values that are present, in row order. *)
RECURSIVE DropNa(_)
DropNa(s) ==
    IF s = <<>> THEN <<>>
    ELSE (IF IsNone(s[1]) THEN <<>> ELSE <<Val(s[1])>>) \o DropNa(Tail(s))

Columns(d) == Range(d.columns)

sanitizar_coluna(d, coluna) ==
    IF coluna \notin Columns(d) THEN <<>>
    ELSE DropNa([i \in 1..Len(d.data[coluna]) |-> SanitizeCell(d.data[coluna][i])])

----------------------------------------------------------------------------
(* utilitarios.calcular_estatisticas                                       *)

(* round(Series.median(), 2). *)
Mediana(serie) ==
    LET ss == Sorted(serie)
        n  == Len(ss)
    IN  IF n % 2 = 1 THEN Round2(ss[(n + 1) \div 2], 1)
        ELSE Round2(ss[n \div 2] + ss[n \div 2 + 1], 2)

(* round(Series.quantile(k / 4), 2): linear interpolation between the      *)
(* order statistics around position (n - 1) * k / 4.                       *)
Quartil(serie, k) ==
    LET ss == Sorted(serie)
        h  == k * (Len(ss) - 1)
        lo == h \div 4
        r  == h % 4
    IN  IF r = 0 THEN Round2(ss[lo + 1], 1)
        ELSE Round2(4 * ss[lo + 1] + r * (ss[lo + 2] - ss[lo + 1]), 4)

(* round(Series.std(), 2), the sample standard deviation (ddof = 1): NaN   *)
(* for a single value, else the square root of                             *)
(* (n * sum(y^2) - sum(y)^2) / (n * (n - 1)), y the distances to the       *)
(* minimum, to the nearest hundredth.  The distances are counted in        *)
(* hundredths when they all are whole hundredths (u = 10), which keeps the *)
(* squares small.                                                          *)
DesvioPadrao(serie) ==
    LET n  == Len(serie)
        mn == SeqMin(serie)
        u  == IF \A i \in 1..n : (serie[i] - mn) % 10 = 0 THEN 10 ELSE 1
        y  == [i \in 1..n |-> (serie[i] - mn) \div u]
        sq == [i \in 1..n |-> y[i] * y[i]]
        N  == n * SeqSum(sq) - SeqSum(y) * SeqSum(y)
        q4 == IF u = 10 THEN (4 * N) \div (n * (n - 1)) ELSE N \div (25 * n * (n - 1))
    IN  IF n = 1 THEN NaN
        ELSE Some(10 * ((Isqrt(q4) + 1) \div 2))

calcular_estatisticas_mut_no_guard(serie) ==
    IF serie = <<>>
    THEN [media |-> NaN, minimo |-> NaN, maximo |-> NaN, mediana |-> NaN,
          desvio_padrao |-> NaN, q1 |-> NaN, q3 |-> NaN]
    ELSE [media  |-> Some(Round2(SeqSum(serie), Len(serie))),
          minimo |-> Some(Round2(SeqMin(serie), 1)),
          maximo |-> Some(Round2(SeqMax(serie), 1)),
          mediana |-> Some(Mediana(serie)),
          desvio_padrao |-> DesvioPadrao(serie),
          q1 |-> Some(Quartil(serie, 1)),
          q3 |-> Some(Quartil(serie, 3))]

calcular_estatisticas(serie) ==
    IF serie = <<>>
    THEN [media |-> None, minimo |-> None, maximo |-> None, mediana |-> None,
          desvio_padrao |-> None, q1 |-> None, q3 |-> None]
    ELSE [media  |-> Some(Round2(SeqSum(serie), Len(serie))),
          minimo |-> Some(Round2(SeqMin(serie), 1)),
          maximo |-> Some(Round2(SeqMax(serie), 1)),
          mediana |-> Some(Mediana(serie)),
          desvio_padrao |-> DesvioPadrao(serie),
          q1 |-> Some(Quartil(serie, 1)),
          q3 |-> Some(Quartil(serie, 3))]

----------------------------------------------------------------------------
(* utilitarios.avaliar_status                                              *)
(*                                                                         *)
(* A configured value is tagged with its Python type.  A dict holds under *)
(* min and max the optional values of its keys "min" and "max"; a list of  *)
(* two elements holds them under min and max in list order; a number holds *)
(* itself under min.  faixa_ideal.get exists on a dict only: any other     *)
(* type raises AttributeError.                                             *)

Dict(minimo, maximo) == [kind |-> "dict", min |-> minimo, max |-> maximo]

EmptyDict == Dict(None, None)

List2(a, b) == [kind |-> "list", min |-> Some(a), max |-> Some(b)]

Num(x) == [kind |-> "num", min |-> Some(x), max |-> None]

(* minimo <= media <= maximo with the defaults -inf and +inf (None here).  *)
InRange(media, minimo, maximo) ==
    /\ (IsNone(minimo) \/ Val(minimo) <= media)
    /\ (IsNone(maximo) \/ media <= Val(maximo))

avaliar_status_mut_strict(media, faixa_ideal) ==
    IF IsNone(media) THEN "erro"
    ELSE IF faixa_ideal.kind # "dict" THEN "raise"
    ELSE LET minimo == faixa_ideal.min
             maximo == faixa_ideal.max
         IN  IF /\ (IsNone(minimo) \/ Val(minimo) < Val(media))
                /\ (IsNone(maximo) \/ Val(media) < Val(maximo))
             THEN "OK" ELSE "Alerta"

avaliar_status(media, faixa_ideal) ==
    IF IsNone(media) THEN "erro"
    ELSE IF faixa_ideal.kind # "dict" THEN "raise"
    ELSE LET minimo == faixa_ideal.min
             maximo == faixa_ideal.max
         IN  IF InRange(Val(media), minimo, maximo) THEN "OK" ELSE "Alerta"

----------------------------------------------------------------------------
(* Values a variable holds while its program is not the one running.       *)

NoDf == [columns |-> <<>>, data |-> <<>>]

EmptyTable == [k \in {} |-> EmptyDict]

NoCfg == [modelo |-> "", combustivel |-> "", valores_ideais |-> EmptyTable]

NoArgs == <<>>

NoLoc == <<>>

NoRes == <<>>

----------------------------------------------------------------------------
(* Program "eval": one call of avaliar_status(media, faixa_ideal).         *)

EvalMedias == {79000, 80000, 95000, 100000, 101000, 105000}

EvalLimits == {None, Some(80000), Some(100000)}

EvalFaixas == { Dict(lo, hi) : lo \in EvalLimits, hi \in EvalLimits }

InitEval ==
    /\ prog = "eval"
    /\ pc = "call"
    /\ df = NoDf
    /\ cfg = NoCfg
    /\ args \in [media : {None} \cup {Some(m) : m \in EvalMedias}, faixa_ideal : EvalFaixas]
    /\ loc = NoLoc
    /\ res = NoRes

EvalCall ==
    /\ prog = "eval"
    /\ pc = "call"
    /\ res' = [status |-> avaliar_status(args.media, args.faixa_ideal)]
    /\ pc' = "done"
    /\ UNCHANGED <<prog, df, cfg, args, loc>>

NextEval == EvalCall

SpecEval == InitEval /\ [][NextEval]_vars

----------------------------------------------------------------------------
(* The reference-range table valores_ideais: modelo -> combustivel ->      *)
(* parameter -> tagged value, and the chained lookups of the modules.      *)

(* str.lower() on the model and fuel names of the model's vocabulary. *)
Lower(s) ==
    CASE s = "Fiesta" -> "fiesta"
      [] s = "FIESTA" -> "fiesta"
      [] s = "Gasolina" -> "gasolina"
      [] OTHER -> s

(* valores_ideais.get(modelo, {}).get(combustivel, {}): the parameter      *)
(* table of the pair, the empty dict when either key is missing.           *)
Faixas(vi, modelo, combustivel) ==
    IF modelo \in DOMAIN vi /\ combustivel \in DOMAIN vi[modelo]
    THEN vi[modelo][combustivel]
    ELSE EmptyTable

CellInvalid == <<"-">>

----------------------------------------------------------------------------
(* fuelpw.analisar                                                         *)

fuelpw_analisar(d, c) ==
    LET coluna == "FUELPW(ms)"
        serie  == sanitizar_coluna(d, coluna)
        estat  == calcular_estatisticas(serie)
        picos  == {i \in 1..Len(serie) : serie[i] > Val(estat.media) * 2}
        faixas == Faixas(c.valores_ideais, c.modelo, c.combustivel)
        faixa_ideal == IF coluna \in DOMAIN faixas THEN faixas[coluna] ELSE EmptyDict
        status == avaliar_status(estat.media, faixa_ideal)
    IN  IF serie = <<>>
        THEN [status |-> "erro", mensagem |-> "sem dados validos"]
        ELSE IF status = "raise"
        THEN [status |-> "raise", mensagem |-> "AttributeError"]
        ELSE [status |-> status,
              mensagem |-> IF status = "OK" THEN "dentro do esperado" ELSE "fora da faixa ideal",
              faixa_ideal |-> faixa_ideal,
              media |-> estat.media,
              picos_detectados |-> Cardinality(picos)]

----------------------------------------------------------------------------
(* shrtft1.analisar and ect_gauge.analisar: the same code over a column,   *)
(* a configuration key and a fallback range.                               *)

(* Lines 26-33 of both: the fallback stands unless the configured value is *)
(* a non-empty list of two elements.                                       *)
FaixaOuFallback(c, chave, fallback) ==
    LET faixas == Faixas(c.valores_ideais, Lower(c.modelo), Lower(c.combustivel))
    IN  IF chave \in DOMAIN faixas /\ faixas[chave].kind = "list"
        THEN Dict(faixas[chave].min, faixas[chave].max)
        ELSE fallback

AnalisarComFallback(d, c, coluna, chave, fallback) ==
    LET serie == sanitizar_coluna(d, coluna)
        estat == calcular_estatisticas(serie)
        faixa_ideal == FaixaOuFallback(c, chave, fallback)
        status == avaliar_status(estat.media, faixa_ideal)
    IN  IF serie = <<>>
        THEN [status |-> "erro", mensagem |-> "sem dados validos"]
        ELSE [status |-> status,
              mensagem |->
                  IF status = "OK" THEN "dentro do esperado"
                  ELSE IF Val(estat.media) < Val(faixa_ideal.min) THEN "abaixo da faixa"
                  ELSE IF Val(estat.media) > Val(faixa_ideal.max) THEN "acima da faixa"
                  ELSE "fora da faixa ideal",
              faixa_ideal |-> faixa_ideal,
              media |-> estat.media]

shrtft1_analisar(d, c) ==
    LET r == AnalisarComFallback(d, c, "SHRTFT1(%)", "SHRTFT1pct",
                                 Dict(Some(-100000), Some(100000)))
    IN  IF r.status \in {"OK", "erro"} THEN r
        ELSE [r EXCEPT !.mensagem = "fora da faixa ideal"]

ect_gauge_analisar(d, c) ==
    AnalisarComFallback(d, c, "ECT_GAUGE(oC)", "ECT_GAUGE",
                        Dict(Some(80000), Some(100000)))

----------------------------------------------------------------------------
(* Program "param": one per-parameter analysis of one data frame.          *)

MaxRows == 2

ParamModules ==
    [fuelpw    |-> [coluna |-> "FUELPW(ms)", chave |-> "FUELPW(ms)",
                    cells |-> {<<"2", ",", "5">>, <<"9", ".", "1">>, CellInvalid},
                    lo |-> 2000, hi |-> 4000],
     shrtft1   |-> [coluna |-> "SHRTFT1(%)", chave |-> "SHRTFT1pct",
                    cells |-> {<<"-", "1", "2", "%">>, <<"3">>, CellInvalid},
                    lo |-> -10000, hi |-> 0],
     ect_gauge |-> [coluna |-> "ECT_GAUGE(oC)", chave |-> "ECT_GAUGE",
                    cells |-> {<<"9", "0">>, <<"1", "0", "5">>, CellInvalid},
                    lo |-> 85000, hi |-> 110000]]

SeqsUpTo(S, n) == UNION { [1..k -> S] : k \in 0..n }

(* A data frame that holds the one column, or no column at all. *)
OneColumnFrames(coluna, cells) ==
    {NoDf} \cup { [columns |-> <<coluna>>, data |-> (coluna :> s)] : s \in SeqsUpTo(cells, MaxRows) }

(* The configuration: no entry for the parameter, its range as the         *)
(* documented two-element list, or its range as a min/max dict.            *)
ParamTables(chave, lo, hi) ==
    { EmptyTable, (chave :> List2(lo, hi)), (chave :> Dict(Some(lo), Some(hi))) }

ParamConfigs(chave, lo, hi) ==
    { [modelo |-> m, combustivel |-> "gasolina",
       valores_ideais |-> ("fiesta" :> ("gasolina" :> t))] :
         m \in {"fiesta", "Fiesta", "gol"}, t \in ParamTables(chave, lo, hi) }

InitParam ==
    /\ prog = "param"
    /\ pc = "call"
    /\ \E m \in DOMAIN ParamModules :
          /\ args = [modulo |-> m]
          /\ df \in OneColumnFrames(ParamModules[m].coluna, ParamModules[m].cells)
          /\ cfg \in ParamConfigs(ParamModules[m].chave, ParamModules[m].lo, ParamModules[m].hi)
    /\ loc = NoLoc
    /\ res = NoRes

ParamReturn(r) ==
    /\ res' = r
    /\ pc' = IF r.status = "raise" THEN "raised" ELSE "done"
    /\ UNCHANGED <<prog, df, cfg, args, loc>>

FuelpwAnalisar ==
    /\ prog = "param" /\ pc = "call" /\ args.modulo = "fuelpw"
    /\ ParamReturn(fuelpw_analisar(df, cfg))

Shrtft1Analisar ==
    /\ prog = "param" /\ pc = "call" /\ args.modulo = "shrtft1"
    /\ ParamReturn(shrtft1_analisar(df, cfg))

EctGaugeAnalisar ==
    /\ prog = "param" /\ pc = "call" /\ args.modulo = "ect_gauge"
    /\ ParamReturn(ect_gauge_analisar(df, cfg))

NextParam == FuelpwAnalisar \/ Shrtft1Analisar \/ EctGaugeAnalisar

SpecParam == InitParam /\ [][NextParam]_vars

(* The module's own lookup finds no range for its parameter. *)
ParamRangeMissing ==
    LET m == ParamModules[args.modulo]
        faixas == IF args.modulo = "fuelpw"
                  THEN Faixas(cfg.valores_ideais, cfg.modelo, cfg.combustivel)
                  ELSE Faixas(cfg.valores_ideais, Lower(cfg.modelo), Lower(cfg.combustivel))
    IN  m.chave \notin DOMAIN faixas

ParamHasMean ==
    sanitizar_coluna(df, ParamModules[args.modulo].coluna) # <<>>

(* C2: with no ideal range configured for the (model, fuel, parameter)     *)
(* key, the verdict of a per-parameter analysis is erro for every non-null *)
(* mean, never OK or Alerta.                                               *)
C2_MissingRangeIsError ==
    (prog = "param" /\ pc \in {"done", "raised"} /\ ParamRangeMissing /\ ParamHasMean) =>
        res.status = "erro"

(* The result of the running module on another frame. *)
ParamAnalisar(m, d, c) ==
    CASE m = "fuelpw"    -> fuelpw_analisar(d, c)
      [] m = "shrtft1"   -> shrtft1_analisar(d, c)
      [] m = "ect_gauge" -> ect_gauge_analisar(d, c)

(* C11: a per-parameter analysis reports a column that is present but      *)
(* empty after sanitization differently (in status or message) from the    *)
(* same column being absent from the dataset.                              *)
C11_AbsentVsEmpty ==
    (/\ prog = "param" /\ pc = "done"
     /\ ParamModules[args.modulo].coluna \in Columns(df)
     /\ ~ParamHasMean) =>
        res # ParamAnalisar(args.modulo, NoDf, cfg)

(* C26: the range look-up lowercases the model and the fuel before         *)
(* indexing the configuration, in every module: with a configuration keyed *)
(* by lowercased names, a call with the model or fuel in any letter case   *)
(* gives the result of the call with the lowercased names.                 *)
C26_CaseInsensitive ==
    (prog = "param" /\ pc \in {"done", "raised"}) =>
        res = ParamAnalisar(args.modulo, df,
                            [cfg EXCEPT !.modelo = Lower(@), !.combustivel = Lower(@)])

(* The same for the two modules that lowercase (shrtft1, ect_gauge). *)
C26_LoweringModules ==
    (prog = "param" /\ pc \in {"done", "raised"} /\ args.modulo # "fuelpw") =>
        res = ParamAnalisar(args.modulo, df,
                            [cfg EXCEPT !.modelo = Lower(@), !.combustivel = Lower(@)])

(* C16: for any dataset and any configuration in the documented format    *)
(* (a two-element [min, max] list, a scalar or no entry), the call of an   *)
(* analysis module returns a result: it never ends in an exception, which  *)
(* the module loop of app.py (no try/except) would let abort the run.      *)
C16_NoModuleRaises ==
    prog = "param" => pc # "raised"

----------------------------------------------------------------------------
(* Program "sanitizar": sanitizar_coluna on one column, then               *)
(* calcular_estatisticas of the series, then sanitizar_coluna on a frame   *)
(* whose column holds that series.                                         *)

DigitChar(k) ==
    CASE k = 0 -> "0" [] k = 1 -> "1" [] k = 2 -> "2" [] k = 3 -> "3" [] k = 4 -> "4"
      [] k = 5 -> "5" [] k = 6 -> "6" [] k = 7 -> "7" [] k = 8 -> "8" [] k = 9 -> "9"

(* The decimal digits of a natural number. *)
RECURSIVE IntStr(_)
IntStr(k) == IF k < 10 THEN <<DigitChar(k)>> ELSE IntStr(k \div 10) \o <<DigitChar(k % 10)>>

RECURSIVE DropTrailingZeros(_)
DropTrailingZeros(t) ==
    IF Len(t) > 1 /\ t[Len(t)] = "0" THEN DropTrailingZeros(SubSeq(t, 1, Len(t) - 1)) ELSE t

(* Series.astype(str) on a float (line 15): the shortest decimal text,     *)
(* with at least one decimal ("55.0", "-12.0", "2.5").                     *)
FloatStr(v) ==
    LET a  == Abs(v)
        f  == a % 1000
        f3 == <<DigitChar(f \div 100), DigitChar((f \div 10) % 10), DigitChar(f % 10)>>
    IN  (IF v < 0 THEN <<"-">> ELSE <<>>) \o IntStr(a \div 1000) \o <<".">> \o DropTrailingZeros(f3)

MaxSanRows == 3

SanColuna == "SHRTFT1(%)"

(* The cells of the column as the CSV gives them. *)
SanCells ==
    { <<" ", "2", ",", "5", " ">>, <<"5", "5", "%">>, <<"-", "1", "2", "%">>, <<"0">>,
      <<"1", ".", "2", "3", "4", ",", "5">>,
      <<"-">>, <<>>, <<" ">>, <<"N", "A">>, <<"n", "a", "n">>, <<"N", "o", "n", "e">>,
      <<"a", "b", "c">> }

InitSan ==
    /\ prog = "sanitizar"
    /\ pc = "call"
    /\ df \in {NoDf} \cup { [columns |-> <<SanColuna>>, data |-> (SanColuna :> rows)] :
                            rows \in SeqsUpTo(SanCells, MaxSanRows) }
    /\ cfg = NoCfg
    /\ args = [coluna |-> SanColuna]
    /\ loc = [estat |-> None, segunda |-> None]
    /\ res = NoRes

SanitizarColuna ==
    /\ prog = "sanitizar" /\ pc = "call"
    /\ res' = sanitizar_coluna(df, args.coluna)
    /\ pc' = "sanitized"
    /\ UNCHANGED <<prog, df, cfg, args, loc>>

CalcularEstatisticas ==
    /\ prog = "sanitizar" /\ pc = "sanitized"
    /\ loc' = [loc EXCEPT !.estat = Some(calcular_estatisticas(res))]
    /\ pc' = "stats"
    /\ UNCHANGED <<prog, df, cfg, args, res>>

(* The frame whose column is the sanitized series. *)
SerieFrame(coluna, serie) ==
    [columns |-> <<coluna>>, data |-> (coluna :> [i \in 1..Len(serie) |-> FloatStr(serie[i])])]

SanitizarDeNovo ==
    /\ prog = "sanitizar" /\ pc = "stats"
    /\ loc' = [loc EXCEPT !.segunda = Some(sanitizar_coluna(SerieFrame(args.coluna, res),
                                                            args.coluna))]
    /\ pc' = "done"
    /\ UNCHANGED <<prog, df, cfg, args, res>>

NextSan == SanitizarColuna \/ CalcularEstatisticas \/ SanitizarDeNovo

SpecSan == InitSan /\ [][NextSan]_vars

SanDone == prog = "sanitizar" /\ pc = "done"

(* The number each cell of the vocabulary stands for: 1000 times the       *)
(* decimal it shows once trimmed, with the decimal comma read as a point   *)
(* and the percent sign dropped; nothing for a sentinel or any other text. *)
SanNumero(c) ==
    CASE c = <<" ", "2", ",", "5", " ">> -> Some(2500)
      [] c = <<"5", "5", "%">>           -> Some(55000)
      [] c = <<"-", "1", "2", "%">>      -> Some(-12000)
      [] c = <<"0">>                     -> Some(0)
      [] OTHER                           -> None

SanRows == IF SanColuna \in Columns(df) THEN df.data[SanColuna] ELSE <<>>

(* The numbers of the rows in row order, rows without a number left out. *)
RECURSIVE SanEsperado(_)
SanEsperado(rows) ==
    IF rows = <<>> THEN <<>>
    ELSE (IF IsNone(SanNumero(rows[1])) THEN <<>> ELSE <<Val(SanNumero(rows[1]))>>)
         \o SanEsperado(Tail(rows))

(* C17: sanitizar_coluna returns exactly the cells that are numbers after  *)
(* trimming, decimal-comma normalisation and percent-sign removal, in row  *)
(* order; sentinels and other unparsable cells are dropped, not replaced   *)
(* by 0 or a missing value; the output is no longer than the input.        *)
C17_SanitizerOutput ==
    SanDone =>
        /\ res = SanEsperado(SanRows)
        /\ Len(res) <= Len(SanRows)
        /\ \A i \in 1..Len(res) : res[i] \in Int

(* C17 witness: a column of a number, a sentinel and a genuine zero keeps  *)
(* the number and the zero.                                                *)
C17_Witness ==
    /\ SanDone
    /\ SanRows = << <<"5", "5", "%">>, <<"-">>, <<"0">> >>
    /\ res = <<55000, 0>>

(* C18: sanitizing a column that holds the output of sanitizar_coluna      *)
(* returns the same values in the same order.                              *)
C18_Idempotent == SanDone => Val(loc.segunda) = res

(* C18 witness: a series with a fraction, a negative and a zero went       *)
(* through the second pass.                                                *)
C18_Witness ==
    /\ SanDone
    /\ res = <<2500, -12000, 0>>
    /\ loc.segunda = Some(<<2500, -12000, 0>>)

(* C19: for a column that is absent, empty or made of invalid cells only,  *)
(* sanitizar_coluna returns the empty series and calcular_estatisticas     *)
(* returns a summary whose seven fields are all null.                      *)
C19_EmptySummary ==
    (SanDone /\ \A i \in 1..Len(SanRows) : IsNone(SanNumero(SanRows[i]))) =>
        /\ res = <<>>
        /\ DOMAIN Val(loc.estat) =
               {"media", "minimo", "maximo", "mediana", "desvio_padrao", "q1", "q3"}
        /\ \A f \in DOMAIN Val(loc.estat) : IsNone(Val(loc.estat)[f])

(* C19 witness: a present column holding only invalid cells. *)
C19_Witness ==
    /\ SanDone
    /\ SanRows = << <<"-">>, <<"N", "A">>, <<>> >>
    /\ res = <<>>
    /\ IsNone(Val(loc.estat).media)

(* C19 second witness: the column is absent. *)
C19_WitnessAbsent == SanDone /\ SanColuna \notin Columns(df) /\ IsNone(Val(loc.estat).q3)

(* C20: the summary of a series of exactly one value has min, max and      *)
(* median equal to that value and a null standard deviation.               *)
C20_SingleValue ==
    (SanDone /\ Len(res) = 1) =>
        LET estat == Val(loc.estat)
        IN  /\ estat.minimo = Some(Round2(res[1], 1))
            /\ estat.maximo = Some(Round2(res[1], 1))
            /\ estat.mediana = Some(Round2(res[1], 1))
            /\ IsNone(estat.desvio_padrao)

----------------------------------------------------------------------------
(* spkdur.analisar, one step per cylinder of the loop, then the balance    *)
(* check, then the return.                                                 *)

COLUNAS_SPK == <<"SPKDUR_1(ms)", "SPKDUR_2(ms)", "SPKDUR_3(ms)", "SPKDUR_4(ms)">>

(* Lines 50-52: perc_diff = (max - min) / max * 100 as an exact fraction   *)
(* of thousandths, 0 when max is 0.                                        *)
PercDiff(medias) ==
    LET mx == SeqMax(medias)
        mn == SeqMin(medias)
    IN  IF mx = 0 THEN Frac(0, 1)
        ELSE IF mx > 0 THEN Frac(100000 * (mx - mn), mx)
        ELSE Frac(-100000 * (mx - mn), -mx)

Desbalanceado_mut_ge(perc_diff) == perc_diff.n >= 20000 * perc_diff.d

(* Line 55: perc_diff > 20. *)
Desbalanceado(perc_diff) == perc_diff.n > 20000 * perc_diff.d

SpkCylinder ==
    /\ prog = "spkdur" /\ pc = "loop"
    /\ LET coluna == COLUNAS_SPK[loc.i]
           serie  == sanitizar_coluna(df, coluna)
           estat  == calcular_estatisticas(serie)
           faixas == Faixas(cfg.valores_ideais, cfg.modelo, cfg.combustivel)
           faixa_ideal == IF coluna \in DOMAIN faixas THEN faixas[coluna] ELSE EmptyDict
           status == avaliar_status(estat.media, faixa_ideal)
       IN  IF status = "raise"
           THEN /\ pc' = "raised"
                /\ res' = [status |-> "raise", mensagem |-> "AttributeError"]
                /\ UNCHANGED loc
           ELSE /\ loc' = [loc EXCEPT
                     !.i = loc.i + 1,
                     !.status_geral = IF status = "Alerta" THEN "Alerta" ELSE @,
                     !.resultados = @ \o <<[media |-> estat.media, status |-> status]>>,
                     !.medias_cilindros =
                         IF IsNone(estat.media) THEN @ ELSE Append(@, Val(estat.media)),
                     !.mensagens =
                         Append(@, IF IsNone(estat.media) THEN "sem dados validos" ELSE "media")]
                /\ pc' = IF loc.i = Len(COLUNAS_SPK) THEN "balance" ELSE "loop"
                /\ UNCHANGED res
    /\ UNCHANGED <<prog, df, cfg, args>>

SpkBalance ==
    /\ prog = "spkdur" /\ pc = "balance"
    /\ IF Len(loc.medias_cilindros) >= 2
       THEN LET perc_diff == PercDiff(loc.medias_cilindros)
            IN  loc' = [loc EXCEPT
                    !.desbalanceamento = Some(Round2(perc_diff.n, perc_diff.d)),
                    !.status_geral = IF Desbalanceado(perc_diff) THEN "Alerta" ELSE @,
                    !.mensagens = IF Desbalanceado(perc_diff)
                                  THEN Append(@, "possivel desbalanceamento") ELSE @]
       ELSE UNCHANGED loc
    /\ pc' = "return"
    /\ UNCHANGED <<prog, df, cfg, args, res>>

SpkReturn ==
    /\ prog = "spkdur" /\ pc = "return"
    /\ res' = [status |-> loc.status_geral,
               mensagem |-> loc.mensagens,
               valores |-> loc.resultados,
               desbalanceamento |-> loc.desbalanceamento]
    /\ pc' = "done"
    /\ UNCHANGED <<prog, df, cfg, args, loc>>

(* Input vocabulary: each cylinder column is absent or holds one cell. *)
SpkCells ==
    { <<"2", ".", "0">>, <<"2", ".", "1">>, <<"2", ".", "3">>, <<"2", ",", "5">>,
      <<"3", ".", "0">>, <<"0">>, CellInvalid }

SpkColumns == {None} \cup {Some(<<c>>) : c \in SpkCells}

SpkFrame(cols) ==
    LET present == {i \in 1..Len(COLUNAS_SPK) : ~IsNone(cols[i])}
        names   == {COLUNAS_SPK[i] : i \in present}
        idx(n)  == CHOOSE i \in present : COLUNAS_SPK[i] = n
        RECURSIVE Ordered(_)
        Ordered(i) == IF i > Len(COLUNAS_SPK) THEN <<>>
                      ELSE (IF i \in present THEN <<COLUNAS_SPK[i]>> ELSE <<>>) \o Ordered(i + 1)
    IN  [columns |-> Ordered(1), data |-> [n \in names |-> Val(cols[idx(n)])]]

SpkTables ==
    { EmptyTable,
      [n \in Range(COLUNAS_SPK) |-> Dict(Some(1500), Some(2800))],
      [n \in Range(COLUNAS_SPK) |-> List2(1500, 2800)] }

InitSpk ==
    /\ prog = "spkdur"
    /\ pc = "loop"
    /\ \E cols \in [1..Len(COLUNAS_SPK) -> SpkColumns] : df = SpkFrame(cols)
    /\ \E t \in SpkTables :
          cfg = [modelo |-> "fiesta", combustivel |-> "gasolina",
                 valores_ideais |-> ("fiesta" :> ("gasolina" :> t))]
    /\ args = NoArgs
    /\ loc = [i |-> 1, status_geral |-> "OK", resultados |-> <<>>,
              medias_cilindros |-> <<>>, mensagens |-> <<>>, desbalanceamento |-> None]
    /\ res = NoRes

NextSpk == SpkCylinder \/ SpkBalance \/ SpkReturn

SpecSpk == InitSpk /\ [][NextSpk]_vars

(* The per-cylinder means of the data frame, as the report shows them. *)
SpkMedias ==
    LET all == [i \in 1..Len(COLUNAS_SPK) |->
                   calcular_estatisticas(sanitizar_coluna(df, COLUNAS_SPK[i])).media]
    IN  DropNa(all)

C8_WitnessExample ==
    /\ prog = "spkdur" /\ pc = "done"
    /\ SpkMedias = <<2100, 2300, 2000, 3000>>
    /\ res.desbalanceamento = Some(33330)
    /\ res.status = "Alerta"

----------------------------------------------------------------------------
(* mistura_loop.analisar, one step per numbered block of the function.     *)
(* The letter a-tilde of "não" is the one-character text "a~".             *)

LowerChar(c) ==
    CASE c = "A" -> "a" [] c = "B" -> "b" [] c = "C" -> "c" [] c = "D" -> "d"
      [] c = "E" -> "e" [] c = "F" -> "f" [] c = "G" -> "g" [] c = "H" -> "h"
      [] c = "I" -> "i" [] c = "J" -> "j" [] c = "K" -> "k" [] c = "L" -> "l"
      [] c = "M" -> "m" [] c = "N" -> "n" [] c = "O" -> "o" [] c = "P" -> "p"
      [] c = "Q" -> "q" [] c = "R" -> "r" [] c = "S" -> "s" [] c = "T" -> "t"
      [] c = "U" -> "u" [] c = "V" -> "v" [] c = "W" -> "w" [] c = "X" -> "x"
      [] c = "Y" -> "y" [] c = "Z" -> "z" [] c = "A~" -> "a~" [] OTHER -> c

(* str.lower() of a cell text. *)
LowerText(t) == [i \in 1..Len(t) |-> LowerChar(t[i])]

(* astype(int) of a float: truncation toward zero (thousandths to units). *)
TruncInt(v) == IF v >= 0 THEN v \div 1000 ELSE -((-v) \div 1000)

OpenLoopNum_mut_fillna_one(c) ==
    LET t == LowerText(Strip(c))
    IN  IF t \in { <<"s", "i", "m">>, <<"t", "r", "u", "e">> } THEN 1
        ELSE IF t \in { <<"n", "a~", "o">>, <<"n", "a", "o">>, <<"f", "a", "l", "s", "e">> } THEN 0
        ELSE IF IsNone(ToNumeric(t)) THEN 1
        ELSE TruncInt(Val(ToNumeric(t)))

(* Lines 36-40: one OPENLOOP cell to its integer.  The replace table maps  *)
(* sim and true to 1, não, nao and false to 0; to_numeric coerces any      *)
(* other text that is no number to NaN, fillna makes it 0.                 *)
OpenLoopNum(c) ==
    LET t == LowerText(Strip(c))
    IN  IF t \in { <<"s", "i", "m">>, <<"t", "r", "u", "e">> } THEN 1
        ELSE IF t \in { <<"n", "a~", "o">>, <<"n", "a", "o">>, <<"f", "a", "l", "s", "e">> } THEN 0
        ELSE IF IsNone(ToNumeric(t)) THEN 0
        ELSE TruncInt(Val(ToNumeric(t)))

(* Line 41: round((openloop_num == 0).sum() / len(openloop_num) * 100, 2). *)
ClosedLoopPct(col) ==
    Round2(100000 * Cardinality({i \in 1..Len(col) : OpenLoopNum(col[i]) = 0}), Len(col))

(* Block 1, lines 21-30: the lambda statistics and their fixed band. *)
LoopLambda ==
    /\ prog = "mistura_loop" /\ pc = "lambda"
    /\ LET estat_lambda == calcular_estatisticas(sanitizar_coluna(df, "LAMBDA_1"))
           fora == Val(estat_lambda.media) < 950 \/ Val(estat_lambda.media) > 1050
       IN  loc' = [loc EXCEPT
               !.lambda = estat_lambda,
               !.status_geral =
                   IF ~IsNone(estat_lambda.media) /\ fora THEN "Alerta" ELSE @,
               !.mensagens =
                   IF IsNone(estat_lambda.media) THEN @
                   ELSE Append(@, IF fora THEN "lambda fora do ideal" ELSE "lambda dentro do ideal")]
    /\ pc' = "openloop"
    /\ UNCHANGED <<prog, df, cfg, args, res>>

(* Block 2, lines 32-47: the closed-loop share. *)
LoopOpenLoop ==
    /\ prog = "mistura_loop" /\ pc = "openloop"
    /\ IF "OPENLOOP" \in Columns(df)
       THEN LET closed_loop_pct == ClosedLoopPct(df.data["OPENLOOP"])
            IN  loc' = [loc EXCEPT
                    !.closed_loop = Some(closed_loop_pct),
                    !.status_geral = IF closed_loop_pct < 70000 THEN "Alerta" ELSE @,
                    !.mensagens =
                        IF closed_loop_pct < 70000
                        THEN @ \o <<"closed loop", "pouco tempo em closed loop">>
                        ELSE Append(@, "closed loop")]
       ELSE UNCHANGED loc
    /\ pc' = "fuelcorr"
    /\ UNCHANGED <<prog, df, cfg, args, res>>

LoopCorrColumns == <<"FUEL_CORR(:1)", "AF_LEARN">>

(* Block 3, lines 49-55: one iteration of the fuel-correction loop. *)
LoopFuelCorr ==
    /\ prog = "mistura_loop" /\ pc = "fuelcorr"
    /\ LET coluna == LoopCorrColumns[loc.i]
           estat  == calcular_estatisticas(sanitizar_coluna(df, coluna))
       IN  loc' = [loc EXCEPT
               !.i = loc.i + 1,
               !.corr = Append(@, estat),
               !.mensagens = IF IsNone(estat.media) THEN @ ELSE Append(@, "correcao media")]
    /\ pc' = IF loc.i = Len(LoopCorrColumns) THEN "mixcnt" ELSE "fuelcorr"
    /\ UNCHANGED <<prog, df, cfg, args, res>>

(* Block 4 and the return, lines 57-67. *)
LoopReturn ==
    /\ prog = "mistura_loop" /\ pc = "mixcnt"
    /\ LET has == "MIXCNT_STAT" \in Columns(df)
           col == df.data["MIXCNT_STAT"]
           mix_counts == [t \in Range(col) |-> Cardinality({i \in 1..Len(col) : col[i] = t})]
       IN  res' = [status |-> loc.status_geral,
                   mensagem |-> IF has THEN Append(loc.mensagens, "estados de mistura")
                                ELSE loc.mensagens,
                   lambda |-> loc.lambda,
                   closed_loop |-> loc.closed_loop,
                   corr |-> loc.corr,
                   mixcnt_stat |-> IF has THEN Some(mix_counts) ELSE None]
    /\ pc' = "done"
    /\ UNCHANGED <<prog, df, cfg, args, loc>>

MaxLoopRows == 3

(* Input vocabulary of the OPENLOOP column: the tokens the code's replace  *)
(* table knows, the ON/OFF tokens resumo_geral.analisar_openloop expects   *)
(* in this column, and numbers.                                            *)
OpenLoopCells ==
    { <<"S", "i", "m">>, <<"n", "a", "o">>, <<"O", "N">>, <<"O", "F", "F">>, <<"1">>, <<"0">> }

LoopLambdaCells == { <<"1", ".", "0">>, <<"0", ",", "9">>, CellInvalid }

(* A frame of n rows (n >= 1): the OPENLOOP cells, and each other column   *)
(* absent or one cell on every row.                                        *)
LoopFrame(open, lam, corr, mix) ==
    LET n == IF IsNone(open) THEN 1 ELSE Len(Val(open))
        cols == (IF IsNone(lam) THEN <<>> ELSE <<"LAMBDA_1">>)
                \o (IF IsNone(open) THEN <<>> ELSE <<"OPENLOOP">>)
                \o (IF corr THEN <<"FUEL_CORR(:1)", "AF_LEARN">> ELSE <<>>)
                \o (IF mix THEN <<"MIXCNT_STAT">> ELSE <<>>)
    IN  [columns |-> cols,
         data |-> [c \in Range(cols) |->
                     IF c = "OPENLOOP" THEN Val(open)
                     ELSE IF c = "LAMBDA_1" THEN Repeat(Val(lam), n)
                     ELSE IF c = "MIXCNT_STAT" THEN Repeat(<<"2">>, n)
                     ELSE Repeat(<<"1", ".", "0", "2">>, n)]]

InitLoop ==
    /\ prog = "mistura_loop"
    /\ pc = "lambda"
    /\ \E open \in {None} \cup {Some(c) : c \in SeqsUpTo(OpenLoopCells, MaxLoopRows) \ {<<>>}},
          lam \in {None} \cup {Some(c) : c \in LoopLambdaCells},
          corr \in BOOLEAN, mix \in BOOLEAN :
          df = LoopFrame(open, lam, corr, mix)
    /\ cfg = NoCfg
    /\ args = NoArgs
    /\ loc = [i |-> 1, status_geral |-> "OK", mensagens |-> <<>>,
              lambda |-> calcular_estatisticas(<<>>), closed_loop |-> None, corr |-> <<>>]
    /\ res = NoRes

NextLoop == LoopLambda \/ LoopOpenLoop \/ LoopFuelCorr \/ LoopReturn

SpecLoop == InitLoop /\ [][NextLoop]_vars

(* What an OPENLOOP cell says of the engine: open loop for sim, true, on,  *)
(* yes and 1, closed loop for não, nao, false, off, no and 0.              *)
DenotesOpen(c) ==
    LowerText(Strip(c)) \in
        { <<"s", "i", "m">>, <<"t", "r", "u", "e">>, <<"o", "n">>, <<"y", "e", "s">>, <<"1">> }

DenotesClosed(c) ==
    LowerText(Strip(c)) \in
        { <<"n", "a~", "o">>, <<"n", "a", "o">>, <<"f", "a", "l", "s", "e">>,
          <<"o", "f", "f">>, <<"n", "o">>, <<"0">> }

(* C9: for an OPENLOOP column whose values denote open or closed loop, the *)
(* reported closed-loop share is 100 x (samples not in open loop) /        *)
(* (samples), and the status is Alerta whenever the share is below 70.     *)
C9_ClosedLoopShare ==
    (/\ prog = "mistura_loop" /\ pc = "done"
     /\ "OPENLOOP" \in Columns(df)
     /\ \A i \in 1..Len(df.data["OPENLOOP"]) :
           DenotesOpen(df.data["OPENLOOP"][i]) \/ DenotesClosed(df.data["OPENLOOP"][i])) =>
        LET col == df.data["OPENLOOP"]
            notOpen == Cardinality({i \in 1..Len(col) : ~DenotesOpen(col[i])})
        IN  /\ res.closed_loop = Some(Round2(100000 * notOpen, Len(col)))
            /\ (100 * notOpen < 70 * Len(col)) => res.status = "Alerta"

----------------------------------------------------------------------------
(* fuellvl.get_col and its alias table.  The source spells the degree     *)
(* sign of the temperature columns in two mis-encoded ways, written ?? and *)
(* ? here (ect_gauge.py's own correctly encoded sign is written o).        *)

COLUNAS_EQUIVALENTES ==
    [n \in { "FUELLVL(%)", "TRIP_ODOM(km)", "ODOMETER(km)", "IC_SPDMTR(km/h)", "ENGI_IDLE",
             "AF_RATIO(:1)", "SHRTFT1(%)", "LONGFT1(%)", "LAMBDA_1", "LMD_EGO1(:1)",
             "LOAD.OBDII(%)", "TP.OBDII(%)", "ECT_GAUGE(??C)", "IAT(??C)", "VBAT_1(V)" } |->
        CASE n = "FUELLVL(%)"      -> <<"FUELLVL(%)", "FUEL_LVL(%)", "FUELLEVEL(%)">>
          [] n = "TRIP_ODOM(km)"   -> <<"TRIP_ODOM(km)", "TRIP(km)">>
          [] n = "ODOMETER(km)"    -> <<"ODOMETER(km)", "ODO(km)">>
          [] n = "IC_SPDMTR(km/h)" -> <<"IC_SPDMTR(km/h)", "SPEED(km/h)">>
          [] n = "ENGI_IDLE"       -> <<"ENGI_IDLE", "IDLE">>
          [] n = "AF_RATIO(:1)"    -> <<"AF_RATIO(:1)", "AFR(:1)">>
          [] n = "SHRTFT1(%)"      -> <<"SHRTFT1(%)", "STFT1(%)">>
          [] n = "LONGFT1(%)"      -> <<"LONGFT1(%)", "LTFT1(%)">>
          [] n = "LAMBDA_1"        -> <<"LAMBDA_1", "LAMBDA">>
          [] n = "LMD_EGO1(:1)"    -> <<"LMD_EGO1(:1)", "EGO(:1)">>
          [] n = "LOAD.OBDII(%)"   -> <<"LOAD.OBDII(%)", "LOAD(%)">>
          [] n = "TP.OBDII(%)"     -> <<"TP.OBDII(%)", "TPS(%)">>
          [] n = "ECT_GAUGE(??C)"  -> <<"ECT_GAUGE(??C)", "ECT(?C)">>
          [] n = "IAT(??C)"        -> <<"IAT(??C)", "IAT(?C)">>
          [] n = "VBAT_1(V)"       -> <<"VBAT_1(V)", "VBAT(V)">>]

(* COLUNAS_EQUIVALENTES.get(colname, [colname]) *)
Aliases(colname) ==
    IF colname \in DOMAIN COLUNAS_EQUIVALENTES THEN COLUNAS_EQUIVALENTES[colname]
    ELSE <<colname>>

(* The for loop of lines 31-34 over the aliases still to try. *)
RECURSIVE FirstAlias(_, _)
FirstAlias(aliases, d) ==
    IF aliases = <<>> THEN None
    ELSE IF aliases[1] \in Columns(d) THEN Some(aliases[1])
    ELSE FirstAlias(Tail(aliases), d)

(* The columns of the frame searched in frame order for one of the aliases. *)
RECURSIVE FirstColumn(_, _)
FirstColumn(columns, aliases) ==
    IF columns = <<>> THEN None
    ELSE IF columns[1] \in Range(aliases) THEN Some(columns[1])
    ELSE FirstColumn(Tail(columns), aliases)

get_col_mut_position(d, colname) == FirstColumn(d.columns, Aliases(colname))

get_col(d, colname) == FirstAlias(Aliases(colname), d)

----------------------------------------------------------------------------
(* Program "get_col": one call of get_col on a frame whose columns come in *)
(* any order.                                                              *)

MaxCols == 3

ColNamePool == {"FUELLVL(%)", "FUEL_LVL(%)", "FUELLEVEL(%)", "TRIP(km)", "RPM"}

ColLogicalNames == {"FUELLVL(%)", "TRIP_ODOM(km)", "RPM"}

(* The sequences of distinct column names of the pool, MaxCols at most. *)
ColumnOrders ==
    { c \in SeqsUpTo(ColNamePool, MaxCols) : \A i, j \in 1..Len(c) : i # j => c[i] # c[j] }

InitCol ==
    /\ prog = "get_col"
    /\ pc = "call"
    /\ \E c \in ColumnOrders : df = [columns |-> c, data |-> [n \in Range(c) |-> <<>>]]
    /\ cfg = NoCfg
    /\ args \in [colname : ColLogicalNames]
    /\ loc = NoLoc
    /\ res = NoRes

GetColCall ==
    /\ prog = "get_col" /\ pc = "call"
    /\ res' = [col |-> get_col(df, args.colname)]
    /\ pc' = "done"
    /\ UNCHANGED <<prog, df, cfg, args, loc>>

NextCol == GetColCall

SpecCol == InitCol /\ [][NextCol]_vars

(* C10: get_col returns the first alias, in the declared alias order, that *)
(* is a column of the frame, None when no alias is one; the result is a    *)
(* function of the alias order and of the set of column names alone.       *)
C10_FirstAlias ==
    (prog = "get_col" /\ pc = "done") =>
        LET aliases == Aliases(args.colname)
            hits == {i \in 1..Len(aliases) : aliases[i] \in Columns(df)}
        IN  /\ hits = {} <=> IsNone(res.col)
            /\ hits # {} => res.col = Some(aliases[CHOOSE i \in hits : \A j \in hits : i <= j])

(* C10 witness: the frame holds two aliases of FUELLVL(%) with the later   *)
(* alias in the earlier position, and the earlier alias was returned.      *)
C10_Witness ==
    /\ prog = "get_col" /\ pc = "done"
    /\ args.colname = "FUELLVL(%)"
    /\ df.columns = <<"FUELLEVEL(%)", "RPM", "FUEL_LVL(%)">>
    /\ res.col = Some("FUEL_LVL(%)")

----------------------------------------------------------------------------
(* fuellvl.analisar.  Lines 43-124 compute the values of the report, lines *)
(* 126-147 evaluate them.  The idle column (lines 55-59) is computed and   *)
(* never read, and so is the speed column (line 47).  The time(ms) column  *)
(* is read as pandas typed it, a column of numbers.                        *)

VOLUME_TANQUE == 55

JANELA == 10

(* Lines 80-85: the distance travelled. *)
Distancia(trip_odom, odometer) ==
    IF trip_odom # <<>> THEN Some(SeqMax(trip_odom) - SeqMin(trip_odom))
    ELSE IF odometer # <<>> THEN Some(SeqMax(odometer) - SeqMin(odometer))
    ELSE None

DeltaBruto_mut_ends(fuellvl) == Frac(fuellvl[1] - fuellvl[Len(fuellvl)], 1)

(* inicio - fim of lines 90-91, the two window means being exact. *)
DeltaBruto(fuellvl) ==
    LET k == MinOf(JANELA, Len(fuellvl))
    IN  Frac(SeqSum(HeadN(fuellvl, JANELA)) - SeqSum(TailN(fuellvl, JANELA)), k)

Consumo_mut_no_clamp(fuellvl) ==
    IF fuellvl = <<>> THEN [pct |-> None, litros |-> None]
    ELSE LET consumo_pct == DeltaBruto(fuellvl)
         IN  [pct    |-> Some(consumo_pct),
              litros |-> Some(Round2(VOLUME_TANQUE * consumo_pct.n, 100 * consumo_pct.d))]

(* Lines 87-93: consumo_pct = max(inicio - fim, 0) and                     *)
(* consumo_litros = round(consumo_pct / 100.0 * VOLUME_TANQUE, 2).         *)
Consumo(fuellvl) ==
    IF fuellvl = <<>> THEN [pct |-> None, litros |-> None]
    ELSE LET delta == DeltaBruto(fuellvl)
             consumo_pct == IF delta.n > 0 THEN delta ELSE Frac(0, 1)
         IN  [pct    |-> Some(consumo_pct),
              litros |-> Some(Round2(VOLUME_TANQUE * consumo_pct.n, 100 * consumo_pct.d))]

Kml_mut_no_distance_guard(distancia_km, consumo_litros) ==
    IF /\ ~IsNone(distancia_km)
       /\ ~IsNone(consumo_litros) /\ Val(consumo_litros) > 0
    THEN Some(Round2(1000 * Val(distancia_km), Val(consumo_litros)))
    ELSE None

(* Lines 95-97: kml only when distancia_km and consumo_litros are truthy   *)
(* (neither None nor 0) and consumo_litros > 0.                            *)
Kml(distancia_km, consumo_litros) ==
    IF /\ ~IsNone(distancia_km) /\ Val(distancia_km) # 0
       /\ ~IsNone(consumo_litros) /\ Val(consumo_litros) # 0
       /\ Val(consumo_litros) > 0
    THEN Some(Round2(1000 * Val(distancia_km), Val(consumo_litros)))
    ELSE None

FuelMistura ==
    << [campo |-> "AF_RATIO", coluna |-> "AF_RATIO(:1)"],
       [campo |-> "SHRTFT1",  coluna |-> "SHRTFT1(%)"],
       [campo |-> "LONGFT1",  coluna |-> "LONGFT1(%)"],
       [campo |-> "Lambda",   coluna |-> "LAMBDA_1"],
       [campo |-> "EGO",      coluna |-> "LMD_EGO1(:1)"] >>

FuelMotor == <<"LOAD.OBDII(%)", "TP.OBDII(%)", "ECT_GAUGE(??C)", "IAT(??C)", "VBAT_1(V)">>

(* sanitizar_coluna(df, get_col(df, name)): get_col's None is no column. *)
ColunaSanitizada(d, name) ==
    LET col == get_col(d, name)
    IN  IF IsNone(col) THEN <<>> ELSE sanitizar_coluna(d, Val(col))

(* Lines 43-124: resultado["valores"]. *)
(* Lines 75-77: (max - min) / 1000 of time(ms), NaN on a frame without    *)
(* rows.                                                                   *)
TempoTotalSeg(d) ==
    IF "time(ms)" \notin Columns(d) THEN None
    ELSE LET t == DropNa(d.data["time(ms)"])
         IN  IF t = <<>> THEN NaN ELSE Some(Frac(SeqMax(t) - SeqMin(t), 1000))

FuelValores(d) ==
    LET fuellvl   == ColunaSanitizada(d, "FUELLVL(%)")
        trip_odom == ColunaSanitizada(d, "TRIP_ODOM(km)")
        odometer  == ColunaSanitizada(d, "ODOMETER(km)")
        distancia_km == Distancia(trip_odom, odometer)
        consumo == Consumo(fuellvl)
    IN  [consumo_litros  |-> consumo.litros,
         consumo_pct     |-> consumo.pct,
         distancia_km    |-> distancia_km,
         kml             |-> Kml(distancia_km, consumo.litros),
         tempo_total_seg |-> TempoTotalSeg(d),
         mistura |-> [i \in 1..Len(FuelMistura) |->
                         calcular_estatisticas(ColunaSanitizada(d, FuelMistura[i].coluna))],
         motor   |-> [i \in 1..Len(FuelMotor) |->
                         calcular_estatisticas(ColunaSanitizada(d, FuelMotor[i]))]]

(* Lines 130-133 on the running status and messages. *)
FuelCheckKml(acc, valores, faixas) ==
    IF /\ ~IsNone(valores.kml)
       /\ "consumo_minimo_kml" \in DOMAIN faixas
       /\ Val(valores.kml) < Val(faixas["consumo_minimo_kml"].min)
    THEN [status |-> "alerta", status_msgs |-> Append(acc.status_msgs, "consumo abaixo do ideal")]
    ELSE acc

(* Lines 136-141, one iteration of the loop over the mixture fields: a     *)
(* configured list is indexed; a configured non-empty dict or number       *)
(* raises on faixa[0].                                                     *)
FuelCheckMistura(acc, stats, campo, faixas) ==
    IF IsNone(stats.media) \/ campo \notin DOMAIN faixas THEN acc
    ELSE LET faixa == faixas[campo]
         IN  IF faixa.kind = "dict" /\ IsNone(faixa.min) /\ IsNone(faixa.max) THEN acc
             ELSE IF faixa.kind # "list"
             THEN [status |-> "raise", status_msgs |-> acc.status_msgs]
             ELSE IF ~(Val(faixa.min) <= Val(stats.media) /\ Val(stats.media) <= Val(faixa.max))
             THEN [status |-> "alerta",
                   status_msgs |-> Append(acc.status_msgs, "mistura fora da faixa")]
             ELSE acc

(* Lines 143-147. *)
FuelResultado(acc, valores) ==
    [status   |-> acc.status,
     mensagem |-> IF acc.status_msgs = <<>> THEN <<"dentro do esperado">> ELSE acc.status_msgs,
     valores  |-> valores]

RECURSIVE FuelMisturaLoop(_, _, _, _)
FuelMisturaLoop(acc, i, valores, faixas) ==
    IF i > Len(FuelMistura) \/ acc.status = "raise" THEN acc
    ELSE FuelMisturaLoop(FuelCheckMistura(acc, valores.mistura[i], FuelMistura[i].campo, faixas),
                         i + 1, valores, faixas)

(* The whole call, as the steps below run it. *)
fuellvl_analisar(d, c) ==
    LET valores == FuelValores(d)
        faixas  == Faixas(c.valores_ideais, c.modelo, c.combustivel)
        acc0    == [status |-> "OK", status_msgs |-> <<>>]
        acc     == FuelMisturaLoop(FuelCheckKml(acc0, valores, faixas), 1, valores, faixas)
    IN  IF acc.status = "raise" THEN [status |-> "raise", mensagem |-> <<"KeyError">>]
        ELSE FuelResultado(acc, valores)

FuelCompute ==
    /\ prog = "fuellvl" /\ pc = "compute"
    /\ loc' = [loc EXCEPT !.valores = Some(FuelValores(df))]
    /\ pc' = "kml"
    /\ UNCHANGED <<prog, df, cfg, args, res>>

FuelEvalKml ==
    /\ prog = "fuellvl" /\ pc = "kml"
    /\ loc' = [loc EXCEPT !.acc = FuelCheckKml(@, Val(loc.valores),
                                    Faixas(cfg.valores_ideais, cfg.modelo, cfg.combustivel))]
    /\ pc' = "mistura"
    /\ UNCHANGED <<prog, df, cfg, args, res>>

FuelEvalMistura ==
    /\ prog = "fuellvl" /\ pc = "mistura"
    /\ LET acc == FuelCheckMistura(loc.acc, Val(loc.valores).mistura[loc.i],
                                   FuelMistura[loc.i].campo,
                                   Faixas(cfg.valores_ideais, cfg.modelo, cfg.combustivel))
       IN  IF acc.status = "raise"
           THEN /\ pc' = "raised"
                /\ res' = [status |-> "raise", mensagem |-> <<"KeyError">>]
                /\ UNCHANGED loc
           ELSE /\ loc' = [loc EXCEPT !.acc = acc, !.i = loc.i + 1]
                /\ pc' = IF loc.i = Len(FuelMistura) THEN "return" ELSE "mistura"
                /\ UNCHANGED res
    /\ UNCHANGED <<prog, df, cfg, args>>

FuelReturn ==
    /\ prog = "fuellvl" /\ pc = "return"
    /\ res' = FuelResultado(loc.acc, Val(loc.valores))
    /\ pc' = "done"
    /\ UNCHANGED <<prog, df, cfg, args, loc>>

NextFuel == FuelCompute \/ FuelEvalKml \/ FuelEvalMistura \/ FuelReturn

----------------------------------------------------------------------------
(* visao_geral.analisar: the trip summary (lines 27-59), one step per      *)
(* sensor of the loop (lines 61-97), the return (lines 99-103).            *)

FAIXAS_IDEAL ==
    << [campo |-> "BRK_LVL",    lo |-> 1000, hi |-> 1000],
       [campo |-> "FUEL_RESER", lo |-> 0,    hi |-> 0],
       [campo |-> "PSP",        lo |-> 0,    hi |-> 0],
       [campo |-> "ANY_DR_AJ",  lo |-> 0,    hi |-> 0],
       [campo |-> "T_AJAR",     lo |-> 0,    hi |-> 0] >>

(* Lines 35-43: the odometer is read only when the frame has no            *)
(* TRIP_ODOM(km) column at all.                                            *)
VisaoDistancia(d) ==
    IF "TRIP_ODOM(km)" \in Columns(d)
    THEN LET trip == sanitizar_coluna(d, "TRIP_ODOM(km)")
         IN  IF trip # <<>> THEN Some(SeqMax(trip) - SeqMin(trip)) ELSE None
    ELSE IF "ODOMETER(km)" \in Columns(d)
    THEN LET odom == sanitizar_coluna(d, "ODOMETER(km)")
         IN  IF odom # <<>> THEN Some(SeqMax(odom) - SeqMin(odom)) ELSE None
    ELSE None

(* Lines 52-59: resumo_viagem (no time(ms) column in the model's frames).  *)
VisaoResumoViagem(d) ==
    LET distancia_km == VisaoDistancia(d)
        vel_series == sanitizar_coluna(d, "IC_SPDMTR(km/h)")
        rpm_series == sanitizar_coluna(d, "RPM")
    IN  [distancia |-> IF ~IsNone(distancia_km) /\ Val(distancia_km) # 0
                       THEN Some(Round2(Val(distancia_km), 1)) ELSE None,
         duracao   |-> None,
         vel_media |-> calcular_estatisticas(vel_series).media,
         vel_max   |-> calcular_estatisticas(vel_series).maximo,
         rpm_medio |-> IF rpm_series = <<>> THEN None
                       ELSE Some(1000 * RoundHalfEven(SeqSum(rpm_series), 1000 * Len(rpm_series))),
         rpm_max   |-> IF rpm_series = <<>> THEN None
                       ELSE Some(1000 * RoundHalfEven(SeqMax(rpm_series), 1000))]

(* Lines 62-97 for one sensor: its entry and whether it sets the overall   *)
(* status to Alerta.                                                       *)
VisaoSensorEntry(d, f) ==
    LET serie  == sanitizar_coluna(d, f.campo)
        dentro == Cardinality({i \in 1..Len(serie) : serie[i] >= f.lo /\ serie[i] <= f.hi})
        proporcao_dentro == Round2(100000 * dentro, Len(serie))
    IN  IF serie = <<>>
        THEN [campo |-> f.campo, status |-> "erro", proporcao_dentro |-> None, alerta |-> TRUE]
        ELSE [campo |-> f.campo,
              status |-> IF proporcao_dentro >= 75000 THEN "OK"
                         ELSE IF proporcao_dentro >= 50000 THEN "Alerta"
                         ELSE "Critico",
              proporcao_dentro |-> Some(proporcao_dentro),
              alerta |-> proporcao_dentro < 75000]

VisaoResumo ==
    /\ prog = "visao_geral" /\ pc = "resumo"
    /\ loc' = [loc EXCEPT !.resumo_viagem = Some(VisaoResumoViagem(df))]
    /\ pc' = "sensores"
    /\ UNCHANGED <<prog, df, cfg, args, res>>

VisaoSensor ==
    /\ prog = "visao_geral" /\ pc = "sensores"
    /\ LET entry == VisaoSensorEntry(df, FAIXAS_IDEAL[loc.i])
       IN  loc' = [loc EXCEPT
               !.i = loc.i + 1,
               !.status = IF entry.alerta THEN "Alerta" ELSE @,
               !.sensores = Append(@, [campo |-> entry.campo, status |-> entry.status,
                                       proporcao_dentro |-> entry.proporcao_dentro])]
    /\ pc' = IF loc.i = Len(FAIXAS_IDEAL) THEN "return" ELSE "sensores"
    /\ UNCHANGED <<prog, df, cfg, args, res>>

VisaoReturn ==
    /\ prog = "visao_geral" /\ pc = "return"
    /\ res' = [status |-> loc.status,
               mensagem |-> [i \in 1..Len(loc.sensores) |-> loc.sensores[i].status],
               resumo_viagem |-> Val(loc.resumo_viagem),
               sensores |-> loc.sensores]
    /\ pc' = "done"
    /\ UNCHANGED <<prog, df, cfg, args, loc>>

NextVisao == VisaoResumo \/ VisaoSensor \/ VisaoReturn

----------------------------------------------------------------------------
(* resumo_geral.analisar_fuellvl on a numeric FUELLVL(%) column (values in *)
(* thousandths of a percent, NaN as None).  The intermediate values are    *)
(* exact: the quantiles are kept times 20, the smoothed curve times 100.   *)

(* 20 x Series.quantile(p / 20), linear interpolation between the order    *)
(* statistics around position (n - 1) * p / 20.                            *)
Quantile20(s, p) ==
    LET ss == Sorted(s)
        h  == p * (Len(s) - 1)
        lo == h \div 20
        r  == h % 20
    IN  IF r = 0 THEN 20 * ss[lo + 1]
        ELSE 20 * ss[lo + 1] + r * (ss[lo + 2] - ss[lo + 1])

(* Lines 187-190: 20 x col.clip(lower=q05, upper=q95). *)
Winsorizada(col) ==
    LET q05 == Quantile20(col, 1)
        q95 == Quantile20(col, 19)
    IN  [i \in 1..Len(col) |-> MinOf(MaxOf(20 * col[i], q05), q95)]

(* Line 193: 5 x uniform_filter1d(w, size=5, mode='nearest'), the window   *)
(* centred on each point and the edge values repeated beyond the ends.     *)
UniformFilter5(w) ==
    [i \in 1..Len(w) |->
        LET at(j) == w[MinOf(MaxOf(j, 1), Len(w))]
        IN  at(i - 2) + at(i - 1) + at(i) + at(i + 1) + at(i + 2)]

(* Lines 196-197: the means of the first and the last ten smoothed points. *)
JanelasSuavizadas(col) ==
    LET col_suav == UniformFilter5(Winsorizada(col))
        k == MinOf(10, Len(col))
    IN  [inicial_pct |-> Frac(SeqSum(HeadN(col_suav, 10)), 100 * k),
         final_pct   |-> Frac(SeqSum(TailN(col_suav, 10)), 100 * k)]

(* round(n/d, 2): the nearest hundredth; where n/d lies exactly between    *)
(* two hundredths the binary value of the float decides, so both are       *)
(* possible outcomes.                                                      *)
Round2Outcomes(n, d) ==
    LET q == n \div (10 * d)
        r == n % (10 * d)
    IN  IF 2 * r = 10 * d THEN {10 * q, 10 * (q + 1)} ELSE {Round2(n, d)}

(* Lines 173-212: the results the call can return. *)
analisar_fuellvl(d, capacidade_tanque_litros) ==
    IF "FUELLVL(%)" \notin Columns(d) THEN {[Mensagem |-> "Coluna ausente"]}
    ELSE LET col == DropNa(d.data["FUELLVL(%)"])
         IN  IF col = <<>> THEN {[Mensagem |-> "Sem dados"]}
             ELSE LET j == JanelasSuavizadas(col)
                      ini == j.inicial_pct
                      fin == j.final_pct
                      dif == Frac(ini.n * fin.d - fin.n * ini.d, ini.d * fin.d)
                      consumido == IF dif.n > 0 THEN dif ELSE Frac(0, 1)
                  IN  { [Mensagem |-> "",
                         valor_inicial    |-> vi,
                         valor_final      |-> vf,
                         volume_inicial   |-> li,
                         volume_final     |-> lf,
                         consumo_estimado |-> c] :
                           vi \in Round2Outcomes(ini.n, ini.d),
                           vf \in Round2Outcomes(fin.n, fin.d),
                           li \in Round2Outcomes(capacidade_tanque_litros * ini.n, 100 * ini.d),
                           lf \in Round2Outcomes(capacidade_tanque_litros * fin.n, 100 * fin.d),
                           c  \in Round2Outcomes(capacidade_tanque_litros * consumido.n,
                                                 100 * consumido.d) }

ResumoFuellvl ==
    /\ prog = "resumo_fuellvl" /\ pc = "call"
    /\ res' \in analisar_fuellvl(df, args.capacidade_tanque_litros)
    /\ pc' = "done"
    /\ UNCHANGED <<prog, df, cfg, args, loc>>

NextResumo == ResumoFuellvl

----------------------------------------------------------------------------
(* Programs "fuellvl" and "visao_geral": one call on one trip frame.       *)
(*                                                                         *)
(* A trip frame has la + lb rows; each of its columns holds one cell on    *)
(* the first la rows and another on the last lb rows.                      *)

MaxRun == 10

TripFrame(la, lb, spec) ==
    [columns |-> [i \in 1..Len(spec) |-> spec[i].name],
     data |-> [n \in {spec[i].name : i \in 1..Len(spec)} |->
                  LET e == spec[CHOOSE i \in 1..Len(spec) : spec[i].name = n]
                  IN  Repeat(e.c[1], la) \o Repeat(e.c[2], lb)]]

(* The entry of a column that is present, nothing for one that is absent. *)
Col(name, opt) == IF IsNone(opt) THEN <<>> ELSE <<[name |-> name, c |-> Val(opt)]>>

Optional(S) == {None} \cup {Some(x) : x \in S}

(* The fuel-level column: absent, or 40 -> 55 % (a refuel), 60 -> 40 %,    *)
(* a constant 40 %, or unparsable on one or both runs.  With these levels  *)
(* no litre or km/L value falls on a rounding tie, where the binary value  *)
(* of the float decides the reported hundredth.                            *)
FuelOptions ==
    Optional({ << <<"4", "0">>, <<"5", "5", "%">> >>,
               << <<"6", "0", "%">>, <<" ", "4", "0">> >>,
               << <<"4", "0">>, <<"4", "0">> >>,
               << <<"4", "0">>, CellInvalid >>,
               << CellInvalid, <<"5", "5", "%">> >>,
               << CellInvalid, CellInvalid >> })

(* The trip counter: absent, unparsable, constant, or 100 -> 220,5 km. *)
TripOptions ==
    Optional({ <<CellInvalid, CellInvalid>>,
               << <<"1", "0", "0">>, <<"1", "0", "0">> >>,
               << <<"1", "0", "0">>, <<"2", "2", "0", ",", "5">> >> })

(* The lifetime odometer: absent or 5000 -> 5030 km. *)
OdoOptions == Optional({ << <<"5", "0", "0", "0">>, <<"5", "0", "3", "0">> >> })

(* The mixture column SHRTFT1(%), absent or 3 on every row. *)
MixOptions == Optional({ << <<"3">>, <<"3">> >> })

(* The pair's table: a minimum km/L or none, a SHRTFT1 range or none. *)
FuelTables ==
    { [k \in ks |-> IF k = "consumo_minimo_kml" THEN Num(10000) ELSE List2(-10000, 0)] :
          ks \in {{}, {"consumo_minimo_kml"}, {"consumo_minimo_kml", "SHRTFT1"}} }

InitFuel ==
    /\ prog = "fuellvl"
    /\ pc = "compute"
    /\ \E la \in 0..MaxRun, lb \in 0..MaxRun, fuel \in FuelOptions, trip \in TripOptions,
          odo \in OdoOptions, mix \in MixOptions :
          df = TripFrame(la, lb, Col("FUELLVL(%)", fuel) \o Col("TRIP_ODOM(km)", trip)
                                 \o Col("ODOMETER(km)", odo) \o Col("SHRTFT1(%)", mix))
    /\ \E t \in FuelTables :
          cfg = [modelo |-> "fiesta", combustivel |-> "gasolina",
                 valores_ideais |-> ("fiesta" :> ("gasolina" :> t))]
    /\ args = NoArgs
    /\ loc = [i |-> 1, acc |-> [status |-> "OK", status_msgs |-> <<>>], valores |-> None]
    /\ res = NoRes

SensorOptions == Optional({ << <<"0">>, <<"0">> >> })

BrkOptions ==
    Optional({ << <<"1">>, <<"1">> >>, << <<"1">>, <<"0">> >>, << <<"0">>, <<"0">> >> })

InitVisao ==
    /\ prog = "visao_geral"
    /\ pc = "resumo"
    /\ \E trip \in TripOptions, odo \in OdoOptions, brk \in BrkOptions,
          s \in [{"FUEL_RESER", "PSP", "ANY_DR_AJ", "T_AJAR"} -> SensorOptions] :
          df = TripFrame(1, 1, Col("TRIP_ODOM(km)", trip) \o Col("ODOMETER(km)", odo)
                               \o Col("BRK_LVL", brk) \o Col("FUEL_RESER", s["FUEL_RESER"])
                               \o Col("PSP", s["PSP"]) \o Col("ANY_DR_AJ", s["ANY_DR_AJ"])
                               \o Col("T_AJAR", s["T_AJAR"]))
    /\ cfg = NoCfg
    /\ args = NoArgs
    /\ loc = [i |-> 1, status |-> "OK", sensores |-> <<>>, resumo_viagem |-> None]
    /\ res = NoRes

(* The numeric fuel-level column read from the CSV: absent, or two runs of *)
(* readings or NaN.                                                        *)
NivelOptions ==
    Optional({ <<Some(40000), Some(55000)>>, <<Some(60000), Some(40000)>>,
               <<Some(40000), Some(40000)>>, <<Some(40000), None>>,
               <<None, Some(55000)>>, <<None, None>> })

InitResumo ==
    /\ prog = "resumo_fuellvl"
    /\ pc = "call"
    /\ \E la \in 0..MaxRun, lb \in 0..MaxRun, nivel \in NivelOptions :
          df = TripFrame(la, lb, Col("FUELLVL(%)", nivel))
    /\ cfg = NoCfg
    /\ args = [capacidade_tanque_litros |-> 55]
    /\ loc = NoLoc
    /\ res = NoRes

SpecTrip ==
    (InitFuel \/ InitVisao \/ InitResumo) /\ [][NextFuel \/ NextVisao \/ NextResumo]_vars

----------------------------------------------------------------------------
(* Properties of the trip programs. *)

FuelDone == prog = "fuellvl" /\ pc = "done"

VisaoDone == prog = "visao_geral" /\ pc = "done"

ResumoDone == prog = "resumo_fuellvl" /\ pc = "done"

FuelSerie == ColunaSanitizada(df, "FUELLVL(%)")

TripSerie == ColunaSanitizada(df, "TRIP_ODOM(km)")

OdoSerie == ColunaSanitizada(df, "ODOMETER(km)")

Spread(serie) == SeqMax(serie) - SeqMin(serie)

(* C3: for every non-empty fuel-level series the reported consumed         *)
(* percentage is max(initial-window mean - final-window mean, 0), the      *)
(* reported litres are that percentage / 100 x the tank capacity (to the   *)
(* reported hundredth of a litre), neither is negative, and both are 0     *)
(* when the final-window mean exceeds the initial-window mean.             *)
C3_ClampedConsumption ==
    /\ (FuelDone /\ FuelSerie # <<>>) =>
           LET delta  == DeltaBruto(FuelSerie)
               pct    == Val(res.valores.consumo_pct)
               litros == Val(res.valores.consumo_litros)
           IN  /\ pct = IF delta.n > 0 THEN delta ELSE Frac(0, 1)
               /\ Abs(100 * pct.d * litros - VOLUME_TANQUE * pct.n) <= 500 * pct.d
               /\ litros % 10 = 0
               /\ pct.n >= 0 /\ litros >= 0
               /\ delta.n < 0 => (pct.n = 0 /\ litros = 0)
    /\ (ResumoDone /\ res.Mensagem = "") =>
           LET j   == JanelasSuavizadas(DropNa(df.data["FUELLVL(%)"]))
               dn  == j.inicial_pct.n * j.final_pct.d - j.final_pct.n * j.inicial_pct.d
               dd  == j.inicial_pct.d * j.final_pct.d
               c   == res.consumo_estimado
           IN  /\ c >= 0 /\ c % 10 = 0
               /\ Abs(100 * dd * c - args.capacidade_tanque_litros * MaxOf(dn, 0))
                      <= 500 * dd
               /\ dn < 0 => c = 0

(* The refuel example: first ten readings 40 %, last ten 55 %, reported as *)
(* 0 % and 0 L.                                                            *)
C3_Witness ==
    /\ FuelDone
    /\ Len(FuelSerie) >= 2 * JANELA
    /\ DeltaBruto(FuelSerie) = Frac(40000 - 55000, 1)
    /\ res.valores.consumo_pct = Some(Frac(0, 1))
    /\ res.valores.consumo_litros = Some(0)

(* The same readings in resumo_geral.analisar_fuellvl: the smoothed means  *)
(* are 40.9 % and 54.1 %, the estimate is 0 L.                             *)
C3_WitnessResumo ==
    /\ ResumoDone
    /\ res.Mensagem = ""
    /\ res.valor_inicial = 40900 /\ res.valor_final = 54100
    /\ res.consumo_estimado = 0

(* A trip that did burn fuel: 60 % down to 40 % is 20 % and 11 L. *)
C3_WitnessConsumed ==
    /\ FuelDone
    /\ res.valores.consumo_pct = Some(Frac(20000, 1))
    /\ res.valores.consumo_litros = Some(11000)

(* The frame with its fuel-level column replaced by a constant 40 %. *)
FuelFlat(d) ==
    [d EXCEPT !.data["FUELLVL(%)"] = [i \in 1..Len(@) |-> <<"4", "0">>]]

(* C4: a trip whose raw fuel delta is negative yields a result that        *)
(* differs (in status, message or some field) from the result of the same  *)
(* trip with a raw delta of exactly zero.                                  *)
C4_RefuelDistinguished ==
    (FuelDone /\ FuelSerie # <<>> /\ DeltaBruto(FuelSerie).n < 0) =>
        res # fuellvl_analisar(FuelFlat(df), cfg)

(* C5: km/L is non-null exactly when litres > 0 and distance > 0 are both  *)
(* present, and is then distance / litres to the hundredth; in every other *)
(* case it is null.                                                        *)
C5_KmlGuard ==
    FuelDone =>
        LET v == res.valores
            positive(x) == ~IsNone(x) /\ Val(x) > 0
        IN  /\ ~IsNone(v.kml) <=> (positive(v.consumo_litros) /\ positive(v.distancia_km))
            /\ ~IsNone(v.kml) =>
                   Val(v.kml) = Round2(1000 * Val(v.distancia_km), Val(v.consumo_litros))

(* 120.5 km driven with 0 L consumed: km/L is null. *)
C5_Witness ==
    /\ FuelDone
    /\ res.valores.distancia_km = Some(120500)
    /\ res.valores.consumo_litros = Some(0)
    /\ IsNone(res.valores.kml)

(* 120.5 km on 11 L: 10.95 km/L. *)
C5_WitnessComputed ==
    /\ FuelDone
    /\ res.valores.distancia_km = Some(120500)
    /\ res.valores.consumo_litros = Some(11000)
    /\ res.valores.kml = Some(10950)

(* C6: a distance counter whose max - min is not positive never comes out  *)
(* as a zero distance under an OK status.                                  *)
C6_ZeroDistanceIsError ==
    (FuelDone /\ TripSerie # <<>> /\ Spread(TripSerie) <= 0) =>
        ~(res.valores.distancia_km = Some(0) /\ res.status = "OK")

(* The distance the two counters give: the trip counter when it has a      *)
(* valid value, else the odometer when it has one, else none.              *)
DistanciaEsperada ==
    IF TripSerie # <<>> THEN Some(Spread(TripSerie))
    ELSE IF OdoSerie # <<>> THEN Some(Spread(OdoSerie))
    ELSE None

(* C7: in fuellvl.analisar and in visao_geral.analisar the distance is     *)
(* max - min of the trip counter when it has a valid value and otherwise   *)
(* max - min of the odometer when that has one, also when the trip column  *)
(* is present but entirely unparsable.                                     *)
C7_DistanceFallback ==
    /\ FuelDone => res.valores.distancia_km = DistanciaEsperada
    /\ (VisaoDone /\ ~IsNone(DistanciaEsperada) /\ Val(DistanciaEsperada) > 0) =>
           res.resumo_viagem.distancia = Some(Round2(Val(DistanciaEsperada), 1))

(* The part of C7 that is about fuellvl.analisar. *)
C7_FuelPart == FuelDone => res.valores.distancia_km = DistanciaEsperada

(* The statuses of the entries of visao_geral's report. *)
SensorStatuses == {res.sensores[i].status : i \in 1..Len(res.sensores)}

(* C13: the aggregated status of an analysis is the alert value if and     *)
(* only if one of its entries or derived checks is in alert state (for     *)
(* visao_geral a sensor that is Alerta or Critico, for fuellvl a km/L or   *)
(* mixture check that fired), and OK otherwise.                            *)
C13_AggregatedStatus ==
    /\ VisaoDone =>
           /\ res.status \in {"OK", "Alerta"}
           /\ res.status = "Alerta" <=> SensorStatuses \cap {"Alerta", "Critico"} # {}
    /\ FuelDone =>
           /\ res.status \in {"OK", "alerta"}
           /\ res.status = "alerta" <=> res.mensagem # <<"dentro do esperado">>

(* The part of C13 that is about fuellvl.analisar. *)
C13_FuelPart ==
    FuelDone =>
        /\ res.status \in {"OK", "alerta"}
        /\ res.status = "alerta" <=> res.mensagem # <<"dentro do esperado">>

(* C14: when every entry is OK or erro and at least one is erro, the       *)
(* aggregated status is not the alert value.                               *)
C14_ErrorDoesNotEscalate ==
    (VisaoDone /\ SensorStatuses \subseteq {"OK", "erro"} /\ "erro" \in SensorStatuses) =>
        res.status # "Alerta"

(* C15: every entry status and every aggregated status is one of the three *)
(* verdict values OK, Alerta and erro.                                     *)
C15_ThreeVerdicts ==
    /\ VisaoDone => (SensorStatuses \cup {res.status}) \subseteq {"OK", "Alerta", "erro"}
    /\ FuelDone => res.status \in {"OK", "Alerta", "erro"}

----------------------------------------------------------------------------
(* Programs "analise_completa" and "todas_colunas": the two reports over a *)
(* fixed list of parameters, analisar_dataframe_completo and               *)
(* analisar_todas_colunas.                                                  *)
(*                                                                         *)
(* Both read the frame as pandas.read_csv typed it: a column of dtype      *)
(* float64 holds numbers (Some) and NaN (None), a column of dtype object   *)
(* holds texts and NaN.  The degree sign of the temperature columns is     *)
(* written "o".                                                            *)

(* Series.dropna on a column of texts. *)
DropNaTexto(s) == SelectSeq(s, LAMBDA c : c # None)

UpperChar(c) ==
    CASE c = "a" -> "A" [] c = "b" -> "B" [] c = "c" -> "C" [] c = "d" -> "D"
      [] c = "e" -> "E" [] c = "f" -> "F" [] c = "g" -> "G" [] c = "h" -> "H"
      [] c = "i" -> "I" [] c = "j" -> "J" [] c = "k" -> "K" [] c = "l" -> "L"
      [] c = "m" -> "M" [] c = "n" -> "N" [] c = "o" -> "O" [] c = "p" -> "P"
      [] c = "q" -> "Q" [] c = "r" -> "R" [] c = "s" -> "S" [] c = "t" -> "T"
      [] c = "u" -> "U" [] c = "v" -> "V" [] c = "w" -> "W" [] c = "x" -> "X"
      [] c = "y" -> "Y" [] c = "z" -> "Z" [] OTHER -> c

UpperText(t) == [i \in 1..Len(t) |-> UpperChar(t[i])]

(* df[coluna].dropna().astype(str): the texts of the cells that hold a     *)
(* value, a number written as its float text.                              *)
ColunaTexto(d, coluna) ==
    IF d.dtypes[coluna] = "object" THEN DropNaTexto(d.data[coluna])
    ELSE LET v == DropNa(d.data[coluna]) IN [i \in 1..Len(v) |-> FloatStr(v[i])]

(* resultado[chave] = entrada *)
Atribuir(resultado, chave, entrada) ==
    [k \in DOMAIN resultado \cup {chave} |-> IF k = chave THEN entrada ELSE resultado[k]]

(* ---- analise_completa.analisar_dataframe_completo ---- *)

colunas ==
    << "time(ms)", "IC_SPDMTR(km/h)", "RPM(1/min)", "ODOMETER(km)", "TRIP_ODOM(km)",
       "ENGI_IDLE", "OPENLOOP", "BOO_ABS", "ENG_STAB", "FUELLVL(%)", "FUELPW(ms)",
       "FUEL_CORR(:1)", "AF_LEARN", "SHRTFT1(%)", "LONGFT1(%)", "AF_RATIO(:1)",
       "LMD_EGO1(:1)", "O2S11_V(V)", "ECT_GAUGE(oC)", "ECT(oC)", "IAT(oC)",
       "MAP(V)", "MAP.OBDII(kPa)", "MIXCNT_STAT", "LAMBDA_1", "SPKDUR_1(ms)",
       "SPKDUR_2(ms)", "SPKDUR_3(ms)", "SPKDUR_4(ms)", "LF_WSPD(km/h)",
       "RF_WSPD(km/h)", "LR_WSPD(km/h)", "RR_WSPD(km/h)", "VBAT_1(V)",
       "BRK_LVL", "FUEL_RESER", "PSP", "FANLO", "FANHI", "ANY_DR_AJ", "T_AJAR" >>

(* Lines 8-18, the fields min, media and max (unrounded); of an empty      *)
(* series each is the float nan.                                           *)
estatisticas_numericas(serie) ==
    IF serie = <<>> THEN [min |-> NaN, media |-> NaN, max |-> NaN]
    ELSE [min |-> Some(SeqMin(serie)),
          media |-> Frac(SeqSum(serie), Len(serie)),
          max |-> Some(SeqMax(serie))]

(* Lines 95-130: the entry of a column of the frame.  Of the entry the     *)
(* type tag, the statistics and the number of distinct texts are kept.     *)
EntradaCompleta(d, coluna) ==
    IF d.dtypes[coluna] = "float64"
    THEN [tipo |-> "numerico",
          estatisticas |-> estatisticas_numericas(DropNa(d.data[coluna]))]
    ELSE LET serie == DropNaTexto(d.data[coluna])
             norm  == [i \in 1..Len(serie) |-> LowerText(Strip(serie[i]))]
         IN  [tipo |-> "categorico", distintos |-> Cardinality(Range(norm))]

SemDados == [status |-> "sem_dados"]

(* Lines 90-130: one turn of the loop over colunas. *)
completo_passo_mut_skip_absent(d, resultado, coluna) ==
    IF coluna \notin Columns(d)
    THEN resultado
    ELSE Atribuir(resultado, coluna, EntradaCompleta(d, coluna))

completo_passo(d, resultado, coluna) ==
    IF coluna \notin Columns(d)
    THEN Atribuir(resultado, coluna, SemDados)
    ELSE Atribuir(resultado, coluna, EntradaCompleta(d, coluna))

(* ---- resumo_geral.analisar_todas_colunas ---- *)

Ausente == [Mensagem |-> "Coluna ausente"]

SemDadosResumo == [Mensagem |-> "Sem dados"]

(* An entry whose computation raised (TypeError or ValueError). *)
Levantou == [Mensagem |-> "raise"]

(* scipy.stats.mstats.winsorize(dados, limits=limite in twentieths): the   *)
(* int(limite * n) lowest values are raised to the next one and as many    *)
(* highest values are lowered.                                             *)
Winsorize_mut_zero(dados, limite20) ==
    LET n  == Len(dados)
        k  == (limite20 * n) \div 20
        ss == Sorted(dados)
    IN  [i \in 1..n |-> IF k > 0 /\ (dados[i] <= ss[k] \/ dados[i] >= ss[n - k + 1])
                    THEN 0 ELSE dados[i]]

Winsorize(dados, limite20) ==
    LET n  == Len(dados)
        k  == (limite20 * n) \div 20
        ss == Sorted(dados)
    IN  [i \in 1..n |-> MinOf(MaxOf(dados[i], ss[k + 1]), ss[n - k])]

(* Lines 221-241, on a non-empty numeric series. *)
estatisticas_winsorizadas(serie) ==
    [Mensagem |-> "",
     min |-> Round2(SeqMin(serie), 1),
     mediana |-> Mediana(serie),
     max |-> Round2(SeqMax(serie), 1),
     media_winsorizada |-> Round2(SeqSum(Winsorize(serie, 1)), Len(serie))]

(* Lines 264-284.  The column is not sanitized: on a column of texts min,  *)
(* median or float() raises.  The list of the three most frequent values   *)
(* is not kept.                                                            *)
analisar_coluna_numerica(d, coluna) ==
    IF coluna \notin Columns(d) THEN Ausente
    ELSE IF d.dtypes[coluna] = "object"
    THEN (IF DropNaTexto(d.data[coluna]) = <<>> THEN SemDadosResumo ELSE Levantou)
    ELSE LET serie == DropNa(d.data[coluna])
         IN  IF serie = <<>> THEN SemDadosResumo ELSE estatisticas_winsorizadas(serie)

(* Lines 139-157: the share of each expected value in hundredths of a per  *)
(* cent, and the values that are none of them.                             *)
percentual_valores(col, valores_esperados) ==
    [percentual |-> [v \in valores_esperados |->
                        Round2(100000 * Cardinality({i \in 1..Len(col) : col[i] = v}),
                               Len(col))],
     inesperados |-> Range(col) \ valores_esperados]

(* Lines 159-171. *)
analisar_booleano(d, coluna, valores_esperados) ==
    IF coluna \notin Columns(d) THEN Ausente
    ELSE LET texto == ColunaTexto(d, coluna)
             col   == [i \in 1..Len(texto) |-> UpperText(texto[i])]
         IN  IF col = <<>> THEN SemDadosResumo
             ELSE [Mensagem |-> "",
                   percentuais |-> percentual_valores(col,
                                       {UpperText(v) : v \in valores_esperados})]

(* Lines 448-473 (analisar_brk_lvl) and 475-497 (analisar_psp). *)
analisar_nivel(d, coluna, valores_esperados) ==
    IF coluna \notin Columns(d) THEN Ausente
    ELSE LET texto == ColunaTexto(d, coluna)
             col   == [i \in 1..Len(texto) |-> UpperText(texto[i])]
         IN  IF col = <<>> THEN SemDadosResumo
             ELSE LET p == percentual_valores(col, valores_esperados)
                  IN  [Mensagem |-> "",
                       percentuais |-> p,
                       Status |-> IF p.inesperados = {} THEN "OK" ELSE "Alerta: Valores inesperados"]

(* Lines 525-536: the trip time from the largest time stamp.  An empty     *)
(* column counts as 0; a column of NaN only gives int(nan), a column of    *)
(* texts gives text / 1000: both raise.                                    *)
analisar_tempo(d) ==
    IF "time(ms)" \notin Columns(d) THEN Ausente
    ELSE IF d.data["time(ms)"] = <<>> THEN [Mensagem |-> "", h |-> 0, m |-> 0, s |-> 0]
    ELSE IF d.dtypes["time(ms)"] = "object" THEN Levantou
    ELSE LET serie == DropNa(d.data["time(ms)"])
         IN  IF serie = <<>> THEN Levantou
             ELSE LET tempo_segundos == SeqMax(serie) \div 1000000
                  IN  [Mensagem |-> "",
                       h |-> tempo_segundos \div 3600,
                       m |-> (tempo_segundos % 3600) \div 60,
                       s |-> tempo_segundos % 60]

(* Lines 548-582: first and last reading of a distance counter. *)
analisar_odometro(d, coluna) ==
    IF coluna \notin Columns(d) THEN Ausente
    ELSE IF d.dtypes[coluna] = "object"
    THEN (IF DropNaTexto(d.data[coluna]) = <<>> THEN SemDadosResumo ELSE Levantou)
    ELSE LET col == DropNa(d.data[coluna])
         IN  IF col = <<>> THEN SemDadosResumo
             ELSE LET inicio == Round2(SeqMin(col), 1)
                      fim    == Round2(SeqMax(col), 1)
                  IN  [Mensagem |-> "", Inicio |-> inicio, Fim |-> fim,
                       Distancia |-> Round2(fim - inicio, 1)]

(* Line 598: analisar_fuellvl, whose quantile raises on a column of texts. *)
EntradasFuellvl(d) ==
    IF "FUELLVL(%)" \in Columns(d) /\ d.dtypes["FUELLVL(%)"] = "object"
    THEN (IF DropNaTexto(d.data["FUELLVL(%)"]) = <<>> THEN {SemDadosResumo} ELSE {Levantou})
    ELSE analisar_fuellvl(d, 55)

Texto(str) ==
    CASE str = "SIM" -> <<"S", "I", "M">>
      [] str = "NAO" -> <<"N", "A~", "O">>
      [] str = "ON" -> <<"O", "N">>
      [] str = "OFF" -> <<"O", "F", "F">>
      [] str = "ABERTO" -> <<"A", "B", "E", "R", "T", "O">>
      [] str = "FECHADO" -> <<"F", "E", "C", "H", "A", "D", "O">>
      [] str = "LEAN MIX" -> <<"L", "E", "A", "N", " ", "M", "I", "X">>
      [] str = "RICH MIX" -> <<"R", "I", "C", "H", " ", "M", "I", "X">>
      [] str = "ETC" -> <<"E", "T", "C">>
      [] str = "ALTO" -> <<"A", "L", "T", "O">>
      [] str = "MEDIO" -> <<"M", "E", "D", "I", "O">>
      [] str = "ME'DIO" -> <<"M", "E'", "D", "I", "O">>
      [] str = "BAIXO" -> <<"B", "A", "I", "X", "O">>
      [] str = "HIGH" -> <<"H", "I", "G", "H">>
      [] str = "MEDIUM" -> <<"M", "E", "D", "I", "U", "M">>
      [] str = "LOW" -> <<"L", "O", "W">>

(* Lines 522-692: the assignments of analisar_todas_colunas in the order   *)
(* of the source, each a key and its entry; f is the outcome of            *)
(* analisar_fuellvl.                                                       *)
Atribuicoes(d, f) ==
    << <<"time(ms)", analisar_tempo(d)>>,
       <<"IC_SPDMTR(km/h)", analisar_coluna_numerica(d, "IC_SPDMTR(km/h)")>>,
       <<"RPM(1/min)", analisar_coluna_numerica(d, "RPM(1/min)")>>,
       <<"ODOMETER(km)", analisar_odometro(d, "ODOMETER(km)")>>,
       <<"TRIP_ODOM(km)", analisar_odometro(d, "TRIP_ODOM(km)")>>,
       <<"ENGI_IDLE", analisar_booleano(d, "ENGI_IDLE", {Texto("SIM"), Texto("NAO")})>>,
       <<"OPENLOOP", analisar_booleano(d, "OPENLOOP", {Texto("ON"), Texto("OFF")})>>,
       <<"ENG_STAB", analisar_booleano(d, "ENG_STAB", {Texto("SIM"), Texto("NAO")})>>,
       <<"FUELLVL(%)", f>>,
       <<"FUELPW(ms)", analisar_coluna_numerica(d, "FUELPW(ms)")>>,
       <<"FUEL_CORR(:1)", analisar_coluna_numerica(d, "FUEL_CORR(:1)")>>,
       <<"SHRTFT1(%)", analisar_coluna_numerica(d, "SHRTFT1(%)")>>,
       <<"LONGFT1(%)", analisar_coluna_numerica(d, "LONGFT1(%)")>>,
       <<"AF_RATIO(:1)", analisar_coluna_numerica(d, "AF_RATIO(:1)")>>,
       <<"LMD_EGO1(:1)", analisar_coluna_numerica(d, "LMD_EGO1(:1)")>>,
       <<"O2S11_V(V)", analisar_coluna_numerica(d, "O2S11_V(V)")>>,
       <<"ECT_GAUGE(oC)", analisar_coluna_numerica(d, "ECT_GAUGE(oC)")>>,
       <<"ECT(oC)", analisar_coluna_numerica(d, "ECT(oC)")>>,
       <<"IAT(oC)", analisar_coluna_numerica(d, "IAT(oC)")>>,
       <<"MAP(V)", analisar_coluna_numerica(d, "MAP(V)")>>,
       <<"MAP.OBDII(kPa)", analisar_coluna_numerica(d, "MAP.OBDII(kPa)")>>,
       <<"MIXCNT_STAT", analisar_booleano(d, "MIXCNT_STAT", {Texto("ABERTO"), Texto("FECHADO")})>>,
       <<"LAMBDA_1", analisar_booleano(d, "LAMBDA_1",
                         {Texto("LEAN MIX"), Texto("RICH MIX"), Texto("ETC")})>>,
       <<"SPKDUR_1(ms)", analisar_coluna_numerica(d, "SPKDUR_1(ms)")>>,
       <<"SPKDUR_2(ms)", analisar_coluna_numerica(d, "SPKDUR_2(ms)")>>,
       <<"SPKDUR_3(ms)", analisar_coluna_numerica(d, "SPKDUR_3(ms)")>>,
       <<"SPKDUR_4(ms)", analisar_coluna_numerica(d, "SPKDUR_4(ms)")>>,
       <<"VBAT_1(V)", analisar_coluna_numerica(d, "VBAT_1(V)")>>,
       <<"BRK_LVL", analisar_nivel(d, "BRK_LVL",
                        {Texto("ALTO"), Texto("ME'DIO"), Texto("MEDIO"), Texto("BAIXO")})>>,
       <<"PSP", analisar_nivel(d, "PSP", {Texto("HIGH"), Texto("MEDIUM"), Texto("LOW")})>>,
       <<"FANLO", analisar_coluna_numerica(d, "FANLO")>>,
       <<"FANHI", analisar_coluna_numerica(d, "FANHI")>> >>

RECURSIVE Executar(_, _, _)
(* The assignments from the i-th on, applied to resultado; an entry that   *)
(* raised ends the function with no report.                                *)
Executar(atribuicoes, i, resultado) ==
    IF i > Len(atribuicoes) THEN [status |-> "return", resultado |-> resultado]
    ELSE IF atribuicoes[i][2].Mensagem = "raise" THEN [status |-> "raise", chave |-> atribuicoes[i][1]]
    ELSE Executar(atribuicoes, i + 1, Atribuir(resultado, atribuicoes[i][1], atribuicoes[i][2]))

analisar_todas_colunas(d, f) == Executar(Atribuicoes(d, f), 1, <<>>)

(* ---- the frames and the two programs ---- *)

MaxRelRows == 1

(* The entry of a column that is present with its dtype and its two runs   *)
(* of cells, nothing for one that is absent.                               *)
RelCol(name, opt) ==
    IF IsNone(opt) THEN <<>>
    ELSE <<[name |-> name, dtype |-> Val(opt).dtype, c |-> Val(opt).c]>>

(* A frame of 2 n rows; a frame without rows has columns of dtype object. *)
RelFrame(n, spec) ==
    LET names == {spec[i].name : i \in 1..Len(spec)}
        of(nm) == spec[CHOOSE i \in 1..Len(spec) : spec[i].name = nm]
    IN  [columns |-> [i \in 1..Len(spec) |-> spec[i].name],
         data    |-> [nm \in names |-> Repeat(of(nm).c[1], n) \o Repeat(of(nm).c[2], n)],
         dtypes  |-> [nm \in names |-> IF n = 0 THEN "object" ELSE of(nm).dtype]]

Numerica(a, b) == [dtype |-> "float64", c |-> <<a, b>>]

Textual(a, b) == [dtype |-> "object", c |-> <<a, b>>]

(* A numeric column: absent, two readings, NaN only, or texts with a       *)
(* decimal comma.                                                          *)
RelNumOptions(a, b) ==
    { None, Some(Numerica(Some(a), Some(b))), Some(Numerica(None, None)),
      Some(Textual(<<"2", ",", "5">>, <<"3", ",", "5">>)) }

RelFuelOptions ==
    { None, Some(Numerica(Some(60000), Some(40000))),
      Some(Textual(<<"6", "0", "%">>, <<"4", "0", "%">>)) }

RelOdoOptions ==
    { None, Some(Numerica(Some(5000000), Some(5030500))), Some(Numerica(None, None)) }

RelLoopOptions ==
    { None, Some(Textual(<<"O", "N">>, <<"o", "f", "f">>)), Some(Textual(None, None)),
      Some(Numerica(Some(1000), Some(0))) }

RelBrkOptions ==
    { None, Some(Textual(<<"A", "l", "t", "o">>, <<"B", "A", "I", "X", "O">>)),
      Some(Textual(<<"A", "L", "T", "O">>, <<"x">>)) }

InitRel ==
    /\ prog \in {"analise_completa", "todas_colunas"}
    /\ pc = "call"
    /\ \E n \in 0..MaxRelRows, tempo \in RelNumOptions(5000000, 65000000),
          rpm \in RelNumOptions(1000000, 3000000), odo \in RelOdoOptions,
          fuel \in RelFuelOptions, loop \in RelLoopOptions, brk \in RelBrkOptions :
          df = RelFrame(n, RelCol("time(ms)", tempo) \o RelCol("RPM(1/min)", rpm)
                           \o RelCol("ODOMETER(km)", odo) \o RelCol("FUELLVL(%)", fuel)
                           \o RelCol("OPENLOOP", loop) \o RelCol("BRK_LVL", brk))
    /\ cfg = NoCfg
    /\ args = NoArgs
    /\ loc = [i |-> 1, resultado |-> <<>>]
    /\ res = NoRes

(* analise_completa lines 90-130: the turn of the loop for colunas[i]. *)
CompletoPasso ==
    /\ prog = "analise_completa" /\ pc \in {"call", "loop"}
    /\ loc.i <= Len(colunas)
    /\ loc' = [i |-> loc.i + 1,
               resultado |-> completo_passo(df, loc.resultado, colunas[loc.i])]
    /\ pc' = "loop"
    /\ UNCHANGED <<prog, df, cfg, args, res>>

(* analise_completa line 132. *)
CompletoReturn ==
    /\ prog = "analise_completa" /\ pc = "loop"
    /\ loc.i > Len(colunas)
    /\ res' = loc.resultado
    /\ pc' = "done"
    /\ UNCHANGED <<prog, df, cfg, args, loc>>

(* resumo_geral lines 522-692. *)
AnalisarTodasColunas ==
    /\ prog = "todas_colunas" /\ pc = "call"
    /\ \E f \in EntradasFuellvl(df) :
          LET r == analisar_todas_colunas(df, f)
          IN  IF r.status = "raise"
              THEN pc' = "raised" /\ res' = r
              ELSE pc' = "done" /\ res' = r.resultado
    /\ UNCHANGED <<prog, df, cfg, args, loc>>

NextRel == CompletoPasso \/ CompletoReturn \/ AnalisarTodasColunas

SpecRel == InitRel /\ [][NextRel]_vars

(* The parameters analisar_todas_colunas reports on. *)
RegistroResumo ==
    { "time(ms)", "IC_SPDMTR(km/h)", "RPM(1/min)", "ODOMETER(km)", "TRIP_ODOM(km)",
      "ENGI_IDLE", "OPENLOOP", "ENG_STAB", "FUELLVL(%)", "FUELPW(ms)", "FUEL_CORR(:1)",
      "SHRTFT1(%)", "LONGFT1(%)", "AF_RATIO(:1)", "LMD_EGO1(:1)", "O2S11_V(V)",
      "ECT_GAUGE(oC)", "ECT(oC)", "IAT(oC)", "MAP(V)", "MAP.OBDII(kPa)", "MIXCNT_STAT",
      "LAMBDA_1", "SPKDUR_1(ms)", "SPKDUR_2(ms)", "SPKDUR_3(ms)", "SPKDUR_4(ms)",
      "VBAT_1(V)", "BRK_LVL", "PSP", "FANLO", "FANHI" }

CompletoDone == prog = "analise_completa" /\ pc = "done"

TodasDone == prog = "todas_colunas" /\ pc = "done"

(* C12: whatever columns the dataset holds, the report returned by         *)
(* analisar_dataframe_completo and the one returned by                     *)
(* analisar_todas_colunas has an entry for every parameter of its fixed    *)
(* list and for nothing else, and the entry of a missing column is the     *)
(* explicit absent entry.                                                  *)
C12_CompleteRegistry ==
    /\ CompletoDone =>
          /\ DOMAIN res = Range(colunas)
          /\ \A k \in Range(colunas) : k \notin Columns(df) <=>
                 ("status" \in DOMAIN res[k] /\ res[k] = SemDados)
    /\ TodasDone =>
          /\ DOMAIN res = RegistroResumo
          /\ \A k \in RegistroResumo : k \notin Columns(df) <=> res[k].Mensagem = "Coluna ausente"

C12_Witness ==
    /\ CompletoDone
    /\ "RPM(1/min)" \notin Columns(df)
    /\ "BRK_LVL" \in Columns(df)
    /\ res["BRK_LVL"].tipo = "categorico"

C12_WitnessResumo ==
    /\ TodasDone
    /\ "time(ms)" \notin Columns(df)
    /\ "ODOMETER(km)" \in Columns(df)
    /\ res["ODOMETER(km)"].Mensagem = ""

C12_WitnessEmpty == TodasDone /\ Columns(df) = {}

----------------------------------------------------------------------------
(* Program "winsor": the winsorized mean of one numeric column, by         *)
(* Series.clip to the 5 % and 95 % quantiles (resumo_geral.analisar, lines *)
(* 63-78) and by mstats.winsorize (analisar_coluna_numerica).              *)

WinColuna == "IC_SPDMTR(km/h)"

(* Lines 66-67: winsor.mean(), unrounded. *)
MediaClip(col) == Frac(SeqSum(Winsorizada(col)), 20 * Len(col))

(* Line 234: winsorize(dados, limits=0.05).mean(), unrounded. *)
MediaWinsorize(serie) == Frac(SeqSum(Winsorize(serie, 1)), Len(serie))

(* Lines 63-78: the entry of the speed column. *)
analisar_velocidade(d) ==
    IF WinColuna \notin Columns(d) THEN Ausente
    ELSE LET col == DropNa(d.data[WinColuna])
         IN  IF col = <<>> THEN SemDadosResumo
             ELSE LET media_wins == MediaClip(col)
                  IN  [Mensagem |-> "",
                       min |-> Round2(SeqMin(col), 1),
                       mediana |-> Mediana(col),
                       max |-> Round2(SeqMax(col), 1),
                       media_winsorizada |-> Round2(media_wins.n, media_wins.d)]

MaxMid == 20

(* Readings in whole hundredths. *)
WinValues == {0, 1000, 12340, 50000}

(* A column of three runs of readings, with or without a NaN row. *)
InitWin ==
    /\ prog = "winsor"
    /\ pc = "call"
    /\ \E a \in WinValues, b \in WinValues, c \in WinValues,
          la \in 0..2, lb \in 0..MaxMid, lc \in 0..2, nan \in BOOLEAN :
          df = [columns |-> <<WinColuna>>,
                data |-> (WinColuna :>
                            (Repeat(Some(a), la) \o (IF nan THEN <<None>> ELSE <<>>)
                             \o Repeat(Some(b), lb) \o Repeat(Some(c), lc))),
                dtypes |-> (WinColuna :> "float64")]
    /\ args \in {[variante |-> "clip"], [variante |-> "winsorize"]}
    /\ cfg = NoCfg
    /\ loc = NoLoc
    /\ res = NoRes

AnalisarVelocidade ==
    /\ prog = "winsor" /\ pc = "call" /\ args.variante = "clip"
    /\ res' = analisar_velocidade(df)
    /\ pc' = "done"
    /\ UNCHANGED <<prog, df, cfg, args, loc>>

AnalisarColunaNumerica ==
    /\ prog = "winsor" /\ pc = "call" /\ args.variante = "winsorize"
    /\ res' = analisar_coluna_numerica(df, WinColuna)
    /\ pc' = "done"
    /\ UNCHANGED <<prog, df, cfg, args, loc>>

NextWin == AnalisarVelocidade \/ AnalisarColunaNumerica

SpecWin == InitWin /\ [][NextWin]_vars

WinSerie == DropNa(df.data[WinColuna])

(* The unrounded winsorized mean of the variant that ran. *)
WinMedia ==
    IF args.variante = "clip" THEN MediaClip(WinSerie) ELSE MediaWinsorize(WinSerie)

(* a/b <= c/d for positive denominators. *)
FracLeq(x, y) == x.n * y.d <= y.n * x.d

WinDone == prog = "winsor" /\ pc = "done" /\ Len(WinSerie) >= 4

(* C21: for a numeric series of at least 4 values the winsorized mean lies *)
(* between the 5th and the 95th percentile of the series and within its    *)
(* minimum and maximum, in the clip variant and in the mstats.winsorize    *)
(* variant; the reported mean is that mean to the hundredth and lies       *)
(* within the reported minimum and maximum.                                *)
C21_WinsorizedMeanBounds ==
    WinDone =>
        LET q05 == Frac(Quantile20(WinSerie, 1), 20)
            q95 == Frac(Quantile20(WinSerie, 19), 20)
            mn  == Frac(SeqMin(WinSerie), 1)
            mx  == Frac(SeqMax(WinSerie), 1)
        IN  /\ FracLeq(q05, WinMedia) /\ FracLeq(WinMedia, q95)
            /\ FracLeq(mn, WinMedia) /\ FracLeq(WinMedia, mx)
            /\ res.media_winsorizada = Round2(WinMedia.n, WinMedia.d)
            /\ res.min <= res.media_winsorizada
            /\ res.media_winsorizada <= res.max

(* Both variants actually move a value: the winsorized mean differs from   *)
(* the plain mean.                                                         *)
C21_Witness ==
    /\ WinDone /\ args.variante = "winsorize"
    /\ WinMedia # Frac(SeqSum(WinSerie), Len(WinSerie))

C21_WitnessClip ==
    /\ WinDone /\ args.variante = "clip"
    /\ WinMedia # Frac(SeqSum(WinSerie), Len(WinSerie))

----------------------------------------------------------------------------
(* Program "top3": the three most frequent values of a numeric column, by  *)
(* analise_completa.top3_valores and by resumo_geral.top3_frequentes.      *)

(* serie.round(2) *)
Arredondar_mut_none(serie) == serie

Arredondar(serie) == [i \in 1..Len(serie) |-> Round2(serie[i], 1)]

(* value_counts(normalize=True).head(3) * 100 with round(freq, 2): the     *)
(* lists the call can return.  value_counts orders by falling count and    *)
(* leaves the order of values of equal count open, so every such order is  *)
(* an outcome.  Percentages are in thousandths of a per cent.              *)
ContagemTop3(dados) ==
    LET vals   == Range(dados)
        cnt(v) == Cardinality({i \in 1..Len(dados) : dados[i] = v})
        k      == MinOf(3, Cardinality(vals))
        ordens == { s \in [1..k -> vals] :
                      /\ \A i \in 1..k : \A j \in 1..k : (i < j) =>
                            (s[i] # s[j] /\ cnt(s[i]) >= cnt(s[j]))
                      /\ \A v \in vals \ Range(s) : cnt(v) <= cnt(s[k]) }
    IN  { [i \in 1..k |-> [valor |-> s[i],
                           percentual |-> Round2(100000 * cnt(s[i]), Len(dados))]] :
            s \in ordens }

(* analise_completa lines 20-31, on the series analisar_dataframe_completo *)
(* passes (NaN dropped, line 97).                                          *)
top3_valores(serie) == ContagemTop3(Arredondar(serie))

(* resumo_geral lines 243-262. *)
top3_frequentes(serie) ==
    LET dados == DropNa(serie)
    IN  IF dados = <<>> THEN {<<>>} ELSE ContagemTop3(Arredondar(dados))

MaxTopRows == 4

TopColuna == "SHRTFT1(%)"

(* Readings to the thousandth, none halfway between two hundredths, and    *)
(* NaN.                                                                    *)
TopCells == {Some(1000), Some(1001), Some(1002), Some(2000), Some(1006), Some(3000), None}

(* The series 1.001, 1.002, 1.00, 2.0, 2.0. *)
TopExemplo == <<Some(1001), Some(1002), Some(1000), Some(2000), Some(2000)>>

InitTop ==
    /\ prog = "top3"
    /\ pc = "call"
    /\ \E s \in SeqsUpTo(TopCells, MaxTopRows) \cup {TopExemplo} :
          df = [columns |-> <<TopColuna>>, data |-> (TopColuna :> s),
                dtypes |-> (TopColuna :> "float64")]
    /\ args \in {[funcao |-> "top3_valores"], [funcao |-> "top3_frequentes"]}
    /\ cfg = NoCfg
    /\ loc = NoLoc
    /\ res = NoRes

Top3Valores ==
    /\ prog = "top3" /\ pc = "call" /\ args.funcao = "top3_valores"
    /\ res' \in top3_valores(DropNa(df.data[TopColuna]))
    /\ pc' = "done"
    /\ UNCHANGED <<prog, df, cfg, args, loc>>

Top3Frequentes ==
    /\ prog = "top3" /\ pc = "call" /\ args.funcao = "top3_frequentes"
    /\ res' \in top3_frequentes(df.data[TopColuna])
    /\ pc' = "done"
    /\ UNCHANGED <<prog, df, cfg, args, loc>>

NextTop == Top3Valores \/ Top3Frequentes

SpecTop == InitTop /\ [][NextTop]_vars

TopDone == prog = "top3" /\ pc = "done"

(* The readings of the column that hold a value. *)
TopSerie == DropNa(df.data[TopColuna])

(* The number of readings that are v to the hundredth. *)
TopCount(v) == Cardinality({i \in 1..Len(TopSerie) : Round2(TopSerie[i], 1) = v})

(* C22: the frequency summary of a numeric series counts the values after  *)
(* rounding to 2 decimals, returns at most 3 pairs of a value and its      *)
(* percentage 100 x count / number of values (to the hundredth), in        *)
(* non-increasing order of frequency and with no value twice; the series   *)
(* 1.001, 1.002, 1.00, 2.0, 2.0 gives 1.00 at 60 % first.                  *)
C22_Top3 ==
    TopDone =>
        /\ Len(res) <= 3
        /\ \A i \in 1..Len(res) :
              /\ TopCount(res[i].valor) > 0
              /\ res[i].percentual = Round2(100000 * TopCount(res[i].valor), Len(TopSerie))
        /\ \A i \in 1..Len(res) : \A j \in 1..Len(res) : (i < j) =>
              /\ res[i].valor # res[j].valor
              /\ TopCount(res[i].valor) >= TopCount(res[j].valor)
        /\ (TopSerie = <<1001, 1002, 1000, 2000, 2000>>) =>
              res[1] = [valor |-> 1000, percentual |-> 60000]

(* Two different readings fall into the first bucket, ahead of a third    *)
(* value.                                                                  *)
C22_Witness ==
    /\ TopDone
    /\ Len(res) >= 2
    /\ TopCount(res[1].valor) = 2
    /\ Cardinality({TopSerie[i] : i \in {j \in 1..Len(TopSerie) :
                                          Round2(TopSerie[j], 1) = res[1].valor}}) = 2

(* More than three distinct hundredths: the list is cut to three. *)
C22_WitnessCut ==
    /\ TopDone
    /\ Cardinality({Round2(TopSerie[i], 1) : i \in 1..Len(TopSerie)}) > 3
    /\ Len(res) = 3

C22_WitnessExample ==
    /\ TopDone /\ args.funcao = "top3_frequentes"
    /\ TopSerie = <<1001, 1002, 1000, 2000, 2000>>
    /\ Len(res) = 2

----------------------------------------------------------------------------
(* Program "categorico": the unexpected values of a column of texts, by    *)
(* analise_completa.detectar_comportamento_categorico and by               *)
(* resumo_geral.percentual_valores (through analisar_booleano).            *)

RECURSIVE Unique(_)
(* Series.unique(): the distinct values in order of first appearance. *)
Unique(s) ==
    IF s = <<>> THEN <<>>
    ELSE LET u == Unique(SubSeq(s, 1, Len(s) - 1))
         IN  IF s[Len(s)] \in Range(u) THEN u ELSE Append(u, s[Len(s)])

(* analise_completa lines 54-63: the number of distinct values and, with   *)
(* expected values configured, the first three of the others               *)
(* (desconhecidos[:3]); None where the message is not appended.            *)
detectar_comportamento_categorico(serie, valores_esp) ==
    LET desconhecidos == SelectSeq(Unique(serie), LAMBDA v : v \notin valores_esp)
    IN  [distintos |-> Len(Unique(serie)),
         inesperados |-> IF valores_esp # {} /\ desconhecidos # <<>>
                         THEN Some(HeadN(desconhecidos, 3)) ELSE None]

MaxCatRows == 4

CatColuna == "OPENLOOP"

CatCells == { <<"O", "N">>, <<"o", "f", "f">>, <<"a">>, <<"b">>, <<"c">>, <<"d">> }

InitCat ==
    /\ prog = "categorico"
    /\ pc = "call"
    /\ \E s \in SeqsUpTo(CatCells, MaxCatRows) :
          df = [columns |-> <<CatColuna>>, data |-> (CatColuna :> s),
                dtypes |-> (CatColuna :> "object")]
    /\ args \in {[funcao |-> "detectar_comportamento_categorico"],
                 [funcao |-> "percentual_valores"]}
    /\ cfg = NoCfg
    /\ loc = NoLoc
    /\ res = NoRes

(* analise_completa lines 118-122 with valores_ideais = {OPENLOOP: [on, off]}. *)
DetectarComportamentoCategorico ==
    /\ prog = "categorico" /\ pc = "call"
    /\ args.funcao = "detectar_comportamento_categorico"
    /\ LET col   == DropNaTexto(df.data[CatColuna])
           serie == [i \in 1..Len(col) |-> LowerText(Strip(col[i]))]
       IN  res' = detectar_comportamento_categorico(serie, {<<"o", "n">>, <<"o", "f", "f">>})
    /\ pc' = "done"
    /\ UNCHANGED <<prog, df, cfg, args, loc>>

(* resumo_geral lines 588-590: analisar_booleano(df, "OPENLOOP", ["ON", "OFF"], ...). *)
PercentualValores ==
    /\ prog = "categorico" /\ pc = "call" /\ args.funcao = "percentual_valores"
    /\ res' = analisar_booleano(df, CatColuna, {Texto("ON"), Texto("OFF")})
    /\ pc' = "done"
    /\ UNCHANGED <<prog, df, cfg, args, loc>>

NextCat == DetectarComportamentoCategorico \/ PercentualValores

SpecCat == InitCat /\ [][NextCat]_vars

CatDone == prog = "categorico" /\ pc = "done"

(* The observed values outside the expected set, letter case aside. *)
CatInesperados ==
    {UpperText(df.data[CatColuna][i]) : i \in 1..Len(df.data[CatColuna])}
        \ {Texto("ON"), Texto("OFF")}

(* The unexpected values the result reports, letter case aside. *)
CatReportados ==
    IF args.funcao = "percentual_valores"
    THEN (IF res.Mensagem = "" THEN res.percentuais.inesperados ELSE {})
    ELSE (IF IsNone(res.inesperados) THEN {}
          ELSE {UpperText(Val(res.inesperados)[i]) : i \in 1..Len(Val(res.inesperados))})

PreviewMax == 3

(* C23: the values of a categorical series outside the expected set are    *)
(* reported as unexpected whenever there are any, and the reported list is *)
(* capped to a bounded preview length (3) however many distinct unexpected *)
(* values the column holds.                                                *)
C23_UnexpectedCapped ==
    CatDone =>
        /\ CatReportados \subseteq CatInesperados
        /\ (CatInesperados # {}) => (CatReportados # {})
        /\ Cardinality(CatReportados) <= PreviewMax

(* The part of C23 that holds of both functions: unexpected values are     *)
(* reported, never dropped altogether.                                     *)
C23_Reported ==
    CatDone =>
        /\ CatReportados \subseteq CatInesperados
        /\ (CatInesperados # {}) => (CatReportados # {})

(* The cap as detectar_comportamento_categorico applies it. *)
C23_CappedCompleta ==
    (CatDone /\ args.funcao = "detectar_comportamento_categorico") =>
        Cardinality(CatReportados) = MinOf(PreviewMax, Cardinality(CatInesperados))

----------------------------------------------------------------------------
(* fuellvl.analisar on trips that carry the speed and the time stamp of    *)
(* every row.                                                              *)

(* Speed on the two runs of rows: absent, moving then stopped, stopped     *)
(* then moving, stopped throughout, moving throughout.                     *)
SpeedOptions ==
    Optional({ << <<"4", "0">>, <<"0">> >>, << <<"0">>, <<"4", "0">> >>,
               << <<"0">>, <<"0">> >>, << <<"4", "0">>, <<"4", "0">> >> })

(* The fuel level on the two runs: 60 % -> 40 %, or a constant 40 %. *)
JanFuelOptions ==
    { << <<"6", "0", "%">>, <<" ", "4", "0">> >>, << <<"4", "0">>, <<"4", "0">> >> }

(* One row per second. *)
ComTempo(d) ==
    LET n == IF d.columns = <<>> THEN 0 ELSE Len(d.data[d.columns[1]])
    IN  [columns |-> d.columns \o <<"time(ms)">>,
         data |-> [c \in Columns(d) \cup {"time(ms)"} |->
                      IF c = "time(ms)" THEN [i \in 1..n |-> Some(1000000 * i)]
                      ELSE d.data[c]]]

InitJan ==
    /\ prog = "fuellvl"
    /\ pc = "compute"
    /\ \E la \in 0..MaxRun, lb \in 0..MaxRun, fuel \in JanFuelOptions, speed \in SpeedOptions :
          df = ComTempo(TripFrame(la, lb,
                   Col("FUELLVL(%)", Some(fuel)) \o Col("IC_SPDMTR(km/h)", speed)
                   \o Col("TRIP_ODOM(km)", Some(<< <<"1", "0", "0">>, <<"2", "2", "0", ",", "5">> >>))))
    /\ \E t \in FuelTables :
          cfg = [modelo |-> "fiesta", combustivel |-> "gasolina",
                 valores_ideais |-> ("fiesta" :> ("gasolina" :> t))]
    /\ args = NoArgs
    /\ loc = [i |-> 1, acc |-> [status |-> "OK", status_msgs |-> <<>>], valores |-> None]
    /\ res = NoRes

SpecJan == InitJan /\ [][NextFuel]_vars

JanRows == 1..Len(df.data["FUELLVL(%)"])

(* The rows in which the speed is exactly zero. *)
JanParado ==
    IF "IC_SPDMTR(km/h)" \notin Columns(df) THEN {}
    ELSE {i \in JanRows : SanitizeCell(df.data["IC_SPDMTR(km/h)"][i]) = Some(0)}

(* The first and the last n rows of a set of rows. *)
Primeiras(S, n) == {i \in S : Cardinality({j \in S : j < i}) < n}

Ultimas(S, n) == {i \in S : Cardinality({j \in S : j > i}) < n}

JanTempo(i) == Val(df.data["time(ms)"][i])

(* The rows within the first and the last 5 % of the time span. *)
JanInicio5 == {i \in JanRows : 20 * (JanTempo(i) - JanTempo(1)) <= JanTempo(Len(df.data["time(ms)"])) - JanTempo(1)}

JanFim5 == {i \in JanRows : 20 * (JanTempo(Len(df.data["time(ms)"])) - JanTempo(i)) <= JanTempo(Len(df.data["time(ms)"])) - JanTempo(1)}

JanelaInicial == IF JanParado # {} THEN Primeiras(JanParado, JANELA) ELSE JanInicio5

JanelaFinal == IF JanParado # {} THEN Ultimas(JanParado, JANELA) ELSE JanFim5

RECURSIVE SomaNivel(_)
(* The sum of the fuel level over a set of rows. *)
SomaNivel(S) ==
    IF S = {} THEN 0
    ELSE LET i == CHOOSE j \in S : TRUE
         IN  Val(SanitizeCell(df.data["FUELLVL(%)"][i])) + SomaNivel(S \ {i})

(* C24: the consumed percentage is the mean fuel level over the initial    *)
(* window minus that over the final window (not below 0), where the        *)
(* windows are the first and last N rows with a speed of exactly zero when *)
(* there are such rows and else the first and last 5 % of the time span:   *)
(* no sample outside these windows enters either mean.                     *)
C24_StationaryWindows ==
    (FuelDone /\ JanRows # {} /\ "time(ms)" \in Columns(df)) =>
        LET ni == Cardinality(JanelaInicial)
            nf == Cardinality(JanelaFinal)
            d  == Frac(SomaNivel(JanelaInicial) * nf - SomaNivel(JanelaFinal) * ni, ni * nf)
        IN  Val(res.valores.consumo_pct) = IF d.n > 0 THEN d ELSE Frac(0, 1)

----------------------------------------------------------------------------
(* Program "faixa": the look-up of the configured range of a mixture       *)
(* parameter, as each module that evaluates the parameter does it.         *)

(* correcao_combustivel lines 42-47: the column name with "(%)" replaced   *)
(* by "pct", "(:1)" removed, "." replaced by "_" and ":" removed.          *)
chave_json(coluna) ==
    CASE coluna = "SHRTFT1(%)"   -> "SHRTFT1pct"
      [] coluna = "LONGFT1(%)"   -> "LONGFT1pct"
      [] coluna = "AF_RATIO(:1)" -> "AF_RATIO"
      [] coluna = "LMD_EGO1(:1)" -> "LMD_EGO1"

(* The column of a logical parameter. *)
ColunaDe(parametro) ==
    CASE parametro = "SHRTFT1"  -> "SHRTFT1(%)"
      [] parametro = "LONGFT1"  -> "LONGFT1(%)"
      [] parametro = "AF_RATIO" -> "AF_RATIO(:1)"

(* dict.get(chave): the configured value, None without one. *)
Buscar(faixas, chave) == IF chave \in DOMAIN faixas THEN Some(faixas[chave]) ELSE None

(* The value each module finds for the parameter:                          *)
(*   shrtft1 line 29, longft1 line 30, correcao_combustivel lines 22-48,   *)
(*   fuellvl lines 128 and 138 (the field names of lines 111-113),         *)
(*   lambda_mixture lines 22-27.                                           *)
FaixaEncontrada(modulo, parametro, c) ==
    CASE modulo = "shrtft1" ->
           Buscar(Faixas(c.valores_ideais, Lower(c.modelo), Lower(c.combustivel)), "SHRTFT1pct")
      [] modulo = "longft1" ->
           Buscar(Faixas(c.valores_ideais, c.modelo, c.combustivel), "LONGFT1pct")
      [] modulo = "correcao_combustivel" ->
           Buscar(Faixas(c.valores_ideais, Lower(c.modelo), Lower(c.combustivel)),
                  chave_json(ColunaDe(parametro)))
      [] modulo = "fuellvl" ->
           Buscar(Faixas(c.valores_ideais, c.modelo, c.combustivel), parametro)
      [] modulo = "lambda_mixture" ->
           Buscar(Faixas(c.valores_ideais, c.modelo, c.combustivel), ColunaDe(parametro))

(* The modules that evaluate a parameter against its configured range. *)
Avaliadores(parametro) ==
    CASE parametro = "SHRTFT1"  -> {"shrtft1", "correcao_combustivel", "fuellvl"}
      [] parametro = "LONGFT1"  -> {"longft1", "correcao_combustivel", "fuellvl"}
      [] parametro = "AF_RATIO" -> {"correcao_combustivel", "fuellvl", "lambda_mixture"}

(* The keys under which a configuration may hold the three parameters. *)
ChavesMistura ==
    {"SHRTFT1pct", "SHRTFT1", "LONGFT1pct", "LONGFT1", "AF_RATIO", "AF_RATIO(:1)"}

FaixaDaChave(k) ==
    IF k \in {"SHRTFT1pct", "SHRTFT1"} THEN List2(-10000, 10000)
    ELSE IF k \in {"LONGFT1pct", "LONGFT1"} THEN List2(-8000, 8000)
    ELSE List2(13000, 15000)

InitFaixa ==
    /\ prog = "faixa"
    /\ pc = "call"
    /\ \E p \in {"SHRTFT1", "LONGFT1", "AF_RATIO"} : \E m \in Avaliadores(p) :
          args = [modulo |-> m, parametro |-> p]
    /\ \E ks \in SUBSET ChavesMistura, m \in {"fiesta", "Fiesta"} :
          cfg = [modelo |-> m, combustivel |-> "gasolina",
                 valores_ideais |-> ("fiesta" :> ("gasolina" :> [k \in ks |-> FaixaDaChave(k)]))]
    /\ df = NoDf
    /\ loc = NoLoc
    /\ res = NoRes

FaixaReturn(faixa) ==
    /\ res' = [faixa |-> faixa]
    /\ pc' = "done"
    /\ UNCHANGED <<prog, df, cfg, args, loc>>

Shrtft1BuscaFaixa ==
    /\ prog = "faixa" /\ pc = "call" /\ args.modulo = "shrtft1"
    /\ FaixaReturn(FaixaEncontrada("shrtft1", args.parametro, cfg))

Longft1BuscaFaixa ==
    /\ prog = "faixa" /\ pc = "call" /\ args.modulo = "longft1"
    /\ FaixaReturn(FaixaEncontrada("longft1", args.parametro, cfg))

CorrecaoBuscaFaixa ==
    /\ prog = "faixa" /\ pc = "call" /\ args.modulo = "correcao_combustivel"
    /\ FaixaReturn(FaixaEncontrada("correcao_combustivel", args.parametro, cfg))

FuellvlBuscaFaixa ==
    /\ prog = "faixa" /\ pc = "call" /\ args.modulo = "fuellvl"
    /\ FaixaReturn(FaixaEncontrada("fuellvl", args.parametro, cfg))

LambdaMixtureBuscaFaixa ==
    /\ prog = "faixa" /\ pc = "call" /\ args.modulo = "lambda_mixture"
    /\ FaixaReturn(FaixaEncontrada("lambda_mixture", args.parametro, cfg))

NextFaixa ==
    \/ Shrtft1BuscaFaixa \/ Longft1BuscaFaixa \/ CorrecaoBuscaFaixa
    \/ FuellvlBuscaFaixa \/ LambdaMixtureBuscaFaixa

SpecFaixa == InitFaixa /\ [][NextFaixa]_vars

FaixaDone == prog = "faixa" /\ pc = "done"

(* C25: for a given configuration, model and fuel, the range a module      *)
(* finds for SHRTFT1, LONGFT1 or AF_RATIO is the range every other module  *)
(* that evaluates the parameter finds for it (one canonical key).          *)
C25_SameKey ==
    FaixaDone =>
        \A m \in Avaliadores(args.parametro) :
            FaixaEncontrada(m, args.parametro, cfg) = res.faixa

(* The same with the model given in lower case, where the letter case of   *)
(* the look-up plays no part.                                              *)
C25_SameKeyLower ==
    (FaixaDone /\ cfg.modelo = "fiesta") =>
        \A m \in Avaliadores(args.parametro) :
            FaixaEncontrada(m, args.parametro, cfg) = res.faixa

----------------------------------------------------------------------------
(* map_sensor.analisar: one step per column of the loop, then the cross    *)
(* check of the two columns, then the return.                              *)

COLUNAS_MAP == <<"MAP(V)", "MAP.OBDII(kPa)">>

(* The configured value of a column, {} without one (lines 19-24). *)
FaixaDaColuna(c, coluna) ==
    LET faixas == Faixas(c.valores_ideais, c.modelo, c.combustivel)
    IN  IF coluna \in DOMAIN faixas THEN faixas[coluna] ELSE EmptyDict

(* The sum of a function's values. *)
RECURSIVE SomaDe(_)
SomaDe(f) ==
    IF DOMAIN f = {} THEN 0
    ELSE LET i == CHOOSE j \in DOMAIN f : TRUE
         IN  f[i] + SomaDe([j \in DOMAIN f \ {i} |-> f[j]])

(* Series.corr of the two sanitized columns compared with 0.8 as line 52   *)
(* does (correlacao and correlacao < 0.8): over the rows where both hold a *)
(* value; an undefined correlation (fewer than two rows, a constant        *)
(* column) is NaN and a correlation of 0 is falsy, and neither alerts.     *)
CorrelacaoBaixa(d) ==
    LET rows == {i \in 1..Len(d.data["MAP(V)"]) :
                    /\ ~IsNone(SanitizeCell(d.data["MAP(V)"][i]))
                    /\ ~IsNone(SanitizeCell(d.data["MAP.OBDII(kPa)"][i]))}
        x(i) == Val(SanitizeCell(d.data["MAP(V)"][i])) \div 1000
        y(i) == Val(SanitizeCell(d.data["MAP.OBDII(kPa)"][i])) \div 1000
        n    == Cardinality(rows)
        xs   == [i \in rows |-> x(i)]
        ys   == [i \in rows |-> y(i)]
        sxy  == n * SomaDe([i \in rows |-> x(i) * y(i)]) - SomaDe(xs) * SomaDe(ys)
        sxx  == n * SomaDe([i \in rows |-> x(i) * x(i)]) - SomaDe(xs) * SomaDe(xs)
        syy  == n * SomaDe([i \in rows |-> y(i) * y(i)]) - SomaDe(ys) * SomaDe(ys)
    IN  /\ n >= 2 /\ sxx > 0 /\ syy > 0
        /\ sxy # 0
        /\ (sxy < 0 \/ 25 * sxy * sxy < 16 * sxx * syy)

MapColuna ==
    /\ prog = "map_sensor" /\ pc = "loop"
    /\ LET coluna == COLUNAS_MAP[loc.i]
           serie  == sanitizar_coluna(df, coluna)
           estat  == calcular_estatisticas(serie)
           status == avaliar_status(estat.media, FaixaDaColuna(cfg, coluna))
           travado == serie # <<>> /\ Val(estat.maximo) - Val(estat.minimo) < 1000
       IN  IF status = "raise"
           THEN /\ pc' = "raised"
                /\ res' = [status |-> "raise", mensagem |-> "AttributeError"]
                /\ UNCHANGED loc
           ELSE /\ loc' = [loc EXCEPT
                     !.i = loc.i + 1,
                     !.status_geral = IF status = "Alerta" \/ travado THEN "Alerta" ELSE @,
                     !.resultados = Append(@, [media |-> estat.media, status |-> status]),
                     !.mensagens = Append(@, IF serie = <<>> THEN "sem dados validos"
                                             ELSE IF travado THEN "baixa variacao"
                                             ELSE "media")]
                /\ pc' = IF loc.i = Len(COLUNAS_MAP) THEN "cruzada" ELSE "loop"
                /\ UNCHANGED res
    /\ UNCHANGED <<prog, df, cfg, args>>

MapCorrelacao ==
    /\ prog = "map_sensor" /\ pc = "cruzada"
    /\ IF /\ sanitizar_coluna(df, "MAP(V)") # <<>>
          /\ sanitizar_coluna(df, "MAP.OBDII(kPa)") # <<>>
          /\ CorrelacaoBaixa(df)
       THEN loc' = [loc EXCEPT !.status_geral = "Alerta",
                               !.mensagens = Append(@, "baixa correlacao")]
       ELSE UNCHANGED loc
    /\ pc' = "return"
    /\ UNCHANGED <<prog, df, cfg, args, res>>

MapReturn ==
    /\ prog = "map_sensor" /\ pc = "return"
    /\ res' = [status |-> loc.status_geral, mensagem |-> loc.mensagens,
               valores |-> loc.resultados]
    /\ pc' = "done"
    /\ UNCHANGED <<prog, df, cfg, args, loc>>

MaxMapRows == 2

(* A frame of n rows that holds each of the named columns or not. *)
FramesDe(nomes, cells, n) ==
    { [columns |-> SelectSeq(nomes, LAMBDA c : c \in DOMAIN f), data |-> f] :
        f \in UNION { [S -> [1..n -> cells]] : S \in SUBSET Range(nomes) } }

MapCells == { <<"1">>, <<"3">>, CellInvalid }

MapTables ==
    { EmptyTable, [n \in Range(COLUNAS_MAP) |-> Dict(Some(2000), Some(8000))] }

InitMap ==
    /\ prog = "map_sensor"
    /\ pc = "loop"
    /\ \E n \in 0..MaxMapRows : df \in FramesDe(COLUNAS_MAP, MapCells, n)
    /\ \E t \in MapTables :
          cfg = [modelo |-> "fiesta", combustivel |-> "gasolina",
                 valores_ideais |-> ("fiesta" :> ("gasolina" :> t))]
    /\ args = NoArgs
    /\ loc = [i |-> 1, status_geral |-> "OK", resultados |-> <<>>, mensagens |-> <<>>]
    /\ res = NoRes

NextMap == MapColuna \/ MapCorrelacao \/ MapReturn

----------------------------------------------------------------------------
(* lambda_mixture.analisar: one step per column of the loop, then the      *)
(* check of the O2 sensor's swing, then the return.                        *)

COLUNAS_LAMBDA == <<"AF_RATIO(:1)", "LMD_EGO1(:1)", "O2S11_V(V)">>

LambdaColuna_mut_reset ==
    /\ prog = "lambda_mixture" /\ pc = "loop"
    /\ LET coluna == COLUNAS_LAMBDA[loc.i]
           serie  == sanitizar_coluna(df, coluna)
           estat  == calcular_estatisticas(serie)
           status == avaliar_status(estat.media, FaixaDaColuna(cfg, coluna))
       IN  IF status = "raise"
           THEN /\ pc' = "raised"
                /\ res' = [status |-> "raise", mensagem |-> "AttributeError"]
                /\ UNCHANGED loc
           ELSE /\ loc' = [loc EXCEPT
                     !.i = loc.i + 1,
                     !.status_geral = IF status = "Alerta" THEN "Alerta" ELSE "OK",
                     !.resultados = Append(@, [media |-> estat.media, status |-> status]),
                     !.mensagens = Append(@, "media")]
                /\ pc' = IF loc.i = Len(COLUNAS_LAMBDA) THEN "o2" ELSE "loop"
                /\ UNCHANGED res
    /\ UNCHANGED <<prog, df, cfg, args>>

LambdaColuna ==
    /\ prog = "lambda_mixture" /\ pc = "loop"
    /\ LET coluna == COLUNAS_LAMBDA[loc.i]
           serie  == sanitizar_coluna(df, coluna)
           estat  == calcular_estatisticas(serie)
           status == avaliar_status(estat.media, FaixaDaColuna(cfg, coluna))
       IN  IF status = "raise"
           THEN /\ pc' = "raised"
                /\ res' = [status |-> "raise", mensagem |-> "AttributeError"]
                /\ UNCHANGED loc
           ELSE /\ loc' = [loc EXCEPT
                     !.i = loc.i + 1,
                     !.status_geral = IF status = "Alerta" THEN "Alerta" ELSE @,
                     !.resultados = Append(@, [media |-> estat.media, status |-> status]),
                     !.mensagens = Append(@, IF serie = <<>> THEN "sem dados validos"
                                             ELSE IF status = "OK" THEN "dentro da faixa ideal"
                                             ELSE "fora da faixa ideal")]
                /\ pc' = IF loc.i = Len(COLUNAS_LAMBDA) THEN "o2" ELSE "loop"
                /\ UNCHANGED res
    /\ UNCHANGED <<prog, df, cfg, args>>

(* Lines 48-56: a swing of the O2 voltage below 0.2 V alerts. *)
LambdaO2 ==
    /\ prog = "lambda_mixture" /\ pc = "o2"
    /\ LET o2_serie == sanitizar_coluna(df, "O2S11_V(V)")
       IN  IF o2_serie # <<>> /\ SeqMax(o2_serie) - SeqMin(o2_serie) < 200
           THEN loc' = [loc EXCEPT !.status_geral = "Alerta",
                                   !.mensagens = Append(@, "baixa oscilacao")]
           ELSE UNCHANGED loc
    /\ pc' = "return"
    /\ UNCHANGED <<prog, df, cfg, args, res>>

LambdaReturn ==
    /\ prog = "lambda_mixture" /\ pc = "return"
    /\ res' = [status |-> loc.status_geral, mensagem |-> loc.mensagens,
               valores |-> loc.resultados]
    /\ pc' = "done"
    /\ UNCHANGED <<prog, df, cfg, args, loc>>

(* A column of the log: absent, or two cells. *)
LambdaOptions ==
    Optional({ <<c1, c2>> : c1, c2 \in { <<"0", ".", "1">>, <<"1", "4", ".", "7">>, CellInvalid } })

LambdaTables ==
    { EmptyTable, [n \in Range(COLUNAS_LAMBDA) |-> Dict(Some(500), Some(15000))] }

InitLambda ==
    /\ prog = "lambda_mixture"
    /\ pc = "loop"
    /\ \E o \in [Range(COLUNAS_LAMBDA) -> LambdaOptions] :
          df = TripFrame(1, 1, Col("AF_RATIO(:1)", o["AF_RATIO(:1)"])
                               \o Col("LMD_EGO1(:1)", o["LMD_EGO1(:1)"])
                               \o Col("O2S11_V(V)", o["O2S11_V(V)"]))
    /\ \E t \in LambdaTables :
          cfg = [modelo |-> "fiesta", combustivel |-> "gasolina",
                 valores_ideais |-> ("fiesta" :> ("gasolina" :> t))]
    /\ args = NoArgs
    /\ loc = [i |-> 1, status_geral |-> "OK", resultados |-> <<>>, mensagens |-> <<>>]
    /\ res = NoRes

NextLambda == LambdaColuna \/ LambdaO2 \/ LambdaReturn

----------------------------------------------------------------------------
(* The modules that aggregate a status over their steps, run together.     *)

(* fuellvl on the logs whose two runs are each empty or of full length. *)
InitFuelRuns ==
    /\ prog = "fuellvl"
    /\ pc = "compute"
    /\ \E la \in {0, MaxRun}, lb \in {0, MaxRun}, fuel \in FuelOptions, trip \in TripOptions,
          odo \in OdoOptions, mix \in MixOptions :
          df = TripFrame(la, lb, Col("FUELLVL(%)", fuel) \o Col("TRIP_ODOM(km)", trip)
                                 \o Col("ODOMETER(km)", odo) \o Col("SHRTFT1(%)", mix))
    /\ \E t \in FuelTables :
          cfg = [modelo |-> "fiesta", combustivel |-> "gasolina",
                 valores_ideais |-> ("fiesta" :> ("gasolina" :> t))]
    /\ args = NoArgs
    /\ loc = [i |-> 1, acc |-> [status |-> "OK", status_msgs |-> <<>>], valores |-> None]
    /\ res = NoRes

SpecStatus ==
    /\ (InitSpk \/ InitMap \/ InitLambda \/ InitLoop \/ InitVisao \/ InitFuelRuns)
    /\ [][NextSpk \/ NextMap \/ NextLambda \/ NextLoop \/ NextVisao \/ NextFuel]_vars

(* The aggregated status of the running module: status_geral in spkdur,    *)
(* map_sensor, lambda_mixture and mistura_loop, status in visao_geral and  *)
(* fuellvl.                                                                *)
StatusCorrente ==
    IF prog = "visao_geral" THEN loc.status
    ELSE IF prog = "fuellvl" THEN loc.acc.status
    ELSE loc.status_geral

EmAlerta == StatusCorrente \in {"Alerta", "alerta"}

(* C27: the aggregated status starts at OK; once a step sets it to alert   *)
(* no later step resets it, whatever that step's own outcome; and the      *)
(* status returned is the aggregated one.                                  *)
C27_StatusMonotone ==
    /\ StatusCorrente = "OK"
    /\ [][/\ StatusCorrente' \in {"OK", "Alerta", "alerta"}
          /\ EmAlerta => EmAlerta'
          /\ pc' = "done" => res'.status = StatusCorrente]_vars

(* lambda_mixture alerted on its first column, then judged the second OK,  *)
(* and returned the alert.                                                 *)
C27_Witness ==
    /\ prog = "lambda_mixture" /\ pc = "done"
    /\ res.valores[1].status = "Alerta"
    /\ res.valores[2].status = "OK"
    /\ res.status = "Alerta"

(* visao_geral alerted on a sensor and then judged a later one OK. *)
C27_WitnessVisao ==
    /\ prog = "visao_geral" /\ pc = "done"
    /\ \E i, j \in 1..Len(res.sensores) :
          i < j /\ res.sensores[i].status # "OK" /\ res.sensores[j].status = "OK"
    /\ res.status = "Alerta"

(* fuellvl alerted on the efficiency and ran the mixture checks after it. *)
C27_WitnessFuel ==
    /\ prog = "fuellvl" /\ pc = "done"
    /\ res.status = "alerta"
    /\ Len(res.mensagem) = 1 /\ res.mensagem[1] # "mistura fora da faixa"

----------------------------------------------------------------------------
(* fuellvl.analisar on a log with no more valid fuel samples than one      *)
(* window holds.                                                           *)

FuelCurta == FuelSerie # <<>> /\ Len(FuelSerie) <= JANELA

C28_WitnessLonger ==
    /\ FuelDone /\ Len(FuelSerie) = JANELA + 1
    /\ Val(res.valores.consumo_pct).n > 0

----------------------------------------------------------------------------
(* mistura_loop.analisar on OPENLOOP columns of recognised tokens,         *)
(* unrecognised text, numbers and missing cells.  A missing cell is the    *)
(* text "nan" that astype(str) makes of it (line 35).                      *)

CelulaAusente == <<"n", "a", "n">>

OpenCells ==
    { <<"s", "i", "m">>,  <<"T", "r", "u", "e">>, <<"o", "n">>, <<"Y", "E", "S">>,
      <<"0">>, <<"2">>, <<"0", ".", "5">>, <<>>, CelulaAusente }

InitOpen ==
    /\ prog = "mistura_loop"
    /\ pc = "lambda"
    /\ \E open \in SeqsUpTo(OpenCells, MaxLoopRows) \ {<<>>},
          lam \in {None, Some(<<"1", ".", "0">>), Some(<<"0", ",", "9">>)} :
          df = LoopFrame(Some(open), lam, FALSE, FALSE)
    /\ cfg = NoCfg
    /\ args = NoArgs
    /\ loc = [i |-> 1, status_geral |-> "OK", mensagens |-> <<>>,
              lambda |-> calcular_estatisticas(<<>>), closed_loop |-> None, corr |-> <<>>]
    /\ res = NoRes

SpecOpen == InitOpen /\ [][NextLoop]_vars

(* The cell is one of the tokens the replace table maps to 1. *)
TokenAberto(c) == LowerText(Strip(c)) \in { <<"s", "i", "m">>, <<"t", "r", "u", "e">> }

(* The cell reads as a number other than 0. *)
NumeroNaoZero(c) ==
    LET v == ToNumeric(LowerText(Strip(c))) IN ~IsNone(v) /\ Val(v) # 0

OpenColuna == df.data["OPENLOOP"]

(* The rows of the column the claim is about. *)
Coagidas == {i \in 1..Len(OpenColuna) :
                ~TokenAberto(OpenColuna[i]) /\ ~NumeroNaoZero(OpenColuna[i])}

AlertaClosedLoop == \E i \in 1..Len(res.mensagem) : res.mensagem[i] = "pouco tempo em closed loop"

(* C29: every OPENLOOP cell that is neither 'sim' or 'true' nor a non-zero *)
(* number (missing cells and text such as 'on' or 'yes' included) counts   *)
(* as a closed-loop sample, so that the reported share is at least the     *)
(* share of those cells and is exactly it when every number of the column  *)
(* is 0 or at least 1; a column of such cells only reports 100 % and the   *)
(* open-loop check raises no alert.                                        *)
C29_UnrecognisedIsClosed ==
    (prog = "mistura_loop" /\ pc = "done" /\ "OPENLOOP" \in Columns(df)) =>
        LET n == Len(OpenColuna)
            k == Cardinality(Coagidas)
        IN  /\ Val(res.closed_loop) >= Round2(100000 * k, n)
            /\ (\A i \in 1..n : NumeroNaoZero(OpenColuna[i]) =>
                     Abs(Val(ToNumeric(LowerText(Strip(OpenColuna[i]))))) >= 1000)
                  => res.closed_loop = Some(Round2(100000 * k, n))
            /\ k = n =>
                  /\ res.closed_loop = Some(100000)
                  /\ ~AlertaClosedLoop
                  /\ IsNone(res.lambda.media) => res.status = "OK"
            /\ AlertaClosedLoop <=> Val(res.closed_loop) < 70000

(* A column of 'on', 'YES' and a missing cell: 100 % closed loop, status   *)
(* OK.                                                                     *)
C29_Witness ==
    /\ prog = "mistura_loop" /\ pc = "done"
    /\ "OPENLOOP" \in Columns(df)
    /\ OpenColuna = << <<"o", "n">>, <<"Y", "E", "S">>, CelulaAusente >>
    /\ res.closed_loop = Some(100000)
    /\ res.status = "OK"

(* Unrecognised text beside open-loop tokens: the share falls below 70 and *)
(* the check alerts.                                                       *)
C29_WitnessMixed ==
    /\ prog = "mistura_loop" /\ pc = "done"
    /\ "OPENLOOP" \in Columns(df)
    /\ OpenColuna = << <<"s", "i", "m">>, <<"o", "n">>, <<"T", "r", "u", "e">> >>
    /\ res.closed_loop = Some(33330)
    /\ res.status = "Alerta"

----------------------------------------------------------------------------
(* correcao_combustivel.analisar: one step per column of CAMPOS_MISTURA,   *)
(* then the return.  The shares are exact fractions of 100.                *)

CAMPOS_MISTURA == <<"SHRTFT1(%)", "LONGFT1(%)", "AF_RATIO(:1)", "LMD_EGO1(:1)">>

(* Lines 22-24 and 48-51: the configured value under the column's key when *)
(* it is a list of two, None otherwise.                                    *)
FaixaIdeal(c, coluna) ==
    LET faixa == Buscar(Faixas(c.valores_ideais, Lower(c.modelo), Lower(c.combustivel)),
                        chave_json(coluna))
    IN  IF ~IsNone(faixa) /\ Val(faixa).kind = "list" THEN faixa ELSE None

Percentuais_mut_boundary(serie, faixa_ideal) ==
    LET total == Len(serie)
        lo == Val(faixa_ideal.min)
        hi == Val(faixa_ideal.max)
        conta(S) == Frac(100 * Cardinality(S), total)
    IN  [dentro |-> conta({i \in 1..total : serie[i] >= lo /\ serie[i] <= hi}),
         abaixo |-> conta({i \in 1..total : serie[i] <= lo}),
         acima  |-> conta({i \in 1..total : serie[i] > hi})]

(* Lines 56-59: the shares of the samples within, below and above. *)
Percentuais(serie, faixa_ideal) ==
    LET total == Len(serie)
        lo == Val(faixa_ideal.min)
        hi == Val(faixa_ideal.max)
        conta(S) == Frac(100 * Cardinality(S), total)
    IN  [dentro |-> conta({i \in 1..total : serie[i] >= lo /\ serie[i] <= hi}),
         abaixo |-> conta({i \in 1..total : serie[i] < lo}),
         acima  |-> conta({i \in 1..total : serie[i] > hi})]

(* Lines 27-82: the entry of one column. *)
CorrecaoEntrada(d, c, coluna) ==
    LET serie == sanitizar_coluna(d, coluna)
        estat == calcular_estatisticas(serie)
        faixa_ideal == FaixaIdeal(c, coluna)
    IN  IF serie = <<>>
        THEN [status |-> "erro", titulo |-> coluna, valores |-> <<>>]
        ELSE IF ~IsNone(faixa_ideal)
        THEN LET p == Percentuais(serie, Val(faixa_ideal))
             IN  [status |-> IF p.dentro.n >= 80 * p.dentro.d THEN "OK" ELSE "Alerta",
                  titulo |-> coluna,
                  valores |-> [media |-> estat.media,
                               faixa_ideal |-> faixa_ideal,
                               percentual_dentro |-> Some(p.dentro),
                               percentual_abaixo |-> Some(p.abaixo),
                               percentual_acima  |-> Some(p.acima)]]
        ELSE [status |-> "OK", titulo |-> coluna,
              valores |-> [media |-> estat.media,
                           faixa_ideal |-> None,
                           percentual_dentro |-> None,
                           percentual_abaixo |-> None,
                           percentual_acima  |-> None]]

CorrecaoColuna ==
    /\ prog = "correcao_combustivel" /\ pc = "loop"
    /\ loc' = [loc EXCEPT !.i = loc.i + 1,
                          !.resultados = Append(@, CorrecaoEntrada(df, cfg, CAMPOS_MISTURA[loc.i]))]
    /\ pc' = IF loc.i = Len(CAMPOS_MISTURA) THEN "return" ELSE "loop"
    /\ UNCHANGED <<prog, df, cfg, args, res>>

CorrecaoReturn ==
    /\ prog = "correcao_combustivel" /\ pc = "return"
    /\ res' = loc.resultados
    /\ pc' = "done"
    /\ UNCHANGED <<prog, df, cfg, args, loc>>

MaxCorrRows == 5

CorrCells == { <<"-", "7">>, <<"0">>, <<"9">> }

(* What the configuration holds under each key: nothing, a range, a range  *)
(* with the bounds swapped, a scalar, a dict.                              *)
CorrFaixas ==
    { None, Some(List2(0, 5000)), Some(List2(5000, 0)), Some(Num(5000)),
      Some(Dict(Some(0), Some(5000))) }

CorrTable(f) ==
    IF IsNone(f) THEN EmptyTable
    ELSE [k \in {chave_json(CAMPOS_MISTURA[i]) : i \in 1..Len(CAMPOS_MISTURA)} |-> Val(f)]

(* A frame whose SHRTFT1(%) column is the given cells; the other three     *)
(* columns are absent or hold 3 on every row.                              *)
CorrFrame(cells, outras) ==
    LET cols == IF outras THEN CAMPOS_MISTURA ELSE <<"SHRTFT1(%)">>
    IN  [columns |-> cols,
         data |-> [c \in Range(cols) |->
                     IF c = "SHRTFT1(%)" THEN cells ELSE Repeat(<<"3">>, Len(cells))]]

InitCorrecao ==
    /\ prog = "correcao_combustivel"
    /\ pc = "loop"
    /\ \E cells \in SeqsUpTo(CorrCells, MaxCorrRows), outras \in BOOLEAN :
          df = CorrFrame(cells, outras)
    /\ \E f \in CorrFaixas :
          cfg = [modelo |-> "Fiesta", combustivel |-> "Gasolina",
                 valores_ideais |-> ("fiesta" :> ("gasolina" :> CorrTable(f)))]
    /\ args = NoArgs
    /\ loc = [i |-> 1, resultados |-> <<>>]
    /\ res = NoRes

NextCorrecao == CorrecaoColuna \/ CorrecaoReturn

SpecCorrecao == InitCorrecao /\ [][NextCorrecao]_vars

CorrecaoDone == prog = "correcao_combustivel" /\ pc = "done"

(* The value configured under the key of the i-th column, None without. *)
CorrConfigurada(i) ==
    Buscar(cfg.valores_ideais["fiesta"]["gasolina"], chave_json(CAMPOS_MISTURA[i]))

(* A fraction lies in [0, 100]. *)
EmCem(x) == x.d > 0 /\ x.n >= 0 /\ x.n <= 100 * x.d

(* C30: for every column with valid samples and a configured [min, max]    *)
(* with min <= max, the shares within, below and above each lie in         *)
(* [0, 100] and sum to 100, and the status is OK exactly when the share    *)
(* within is at least 80, Alerta otherwise; without a configured range the *)
(* three shares are null and the status is OK.                             *)
C30_SharesPartition ==
    CorrecaoDone =>
        \A i \in 1..Len(res) :
            LET r == res[i]
                f == CorrConfigurada(i)
            IN  r.status # "erro" =>
                  /\ (~IsNone(f) /\ Val(f).kind = "list" /\ Val(Val(f).min) <= Val(Val(f).max)) =>
                        LET d == Val(r.valores.percentual_dentro)
                            a == Val(r.valores.percentual_abaixo)
                            b == Val(r.valores.percentual_acima)
                        IN  /\ EmCem(d) /\ EmCem(a) /\ EmCem(b)
                            /\ d.n * a.d * b.d + a.n * d.d * b.d + b.n * d.d * a.d
                                  = 100 * d.d * a.d * b.d
                            /\ r.status = IF d.n >= 80 * d.d THEN "OK" ELSE "Alerta"
                  /\ IsNone(f) =>
                        /\ IsNone(r.valores.percentual_dentro)
                        /\ IsNone(r.valores.percentual_abaixo)
                        /\ IsNone(r.valores.percentual_acima)
                        /\ r.status = "OK"

(* Four of five samples within the range, one of them on its lower bound:  *)
(* a share of exactly 80, status OK.                                       *)
C30_Witness ==
    /\ CorrecaoDone
    /\ CorrConfigurada(1) = Some(List2(0, 5000))
    /\ sanitizar_coluna(df, "SHRTFT1(%)") = <<0, 0, -7000, 0, 0>>
    /\ res[1].valores.percentual_dentro = Some(Frac(80, 1))
    /\ res[1].valores.percentual_abaixo = Some(Frac(20, 1))
    /\ res[1].status = "OK"

(* Samples below, within and above: thirds, status Alerta. *)
C30_WitnessAlerta ==
    /\ CorrecaoDone
    /\ CorrConfigurada(1) = Some(List2(0, 5000))
    /\ sanitizar_coluna(df, "SHRTFT1(%)") = <<-7000, 0, 9000>>
    /\ res[1].valores.percentual_dentro = Some(Frac(100, 3))
    /\ res[1].status = "Alerta"

(* No configured range: null shares, status OK. *)
C30_WitnessSemFaixa ==
    /\ CorrecaoDone
    /\ IsNone(CorrConfigurada(1))
    /\ res[1].status = "OK"
    /\ IsNone(res[1].valores.percentual_dentro)

====
